---- MODULE Spec2Model ----
(***************************************************************************)
(* Model of algodiff's forward-mode dual numbers: the DualNumber class,    *)
(* its operators (include/algodiff/dual_number.hpp) and the scalar         *)
(* evaluate/derivative entry points (include/algodiff/forward_mode.hpp).   *)
(*                                                                         *)
(* A C++ double is modelled in sign-magnitude form, as IEEE-754 stores it: *)
(* a record [k, s, n, d] where k is "nan", "inf" or "fin", s is the sign   *)
(* (1 or -1) and n/d is the magnitude of a finite value in lowest terms.   *)
(* Zero is signed.  A result whose magnitude exceeds MaxMag overflows to   *)
(* an infinity and a non-zero result below 1/MaxMag underflows to a signed *)
(* zero; between the two limits results are kept exact (the rounding of    *)
(* the mantissa is not modelled).                                          *)
(***************************************************************************)
EXTENDS Integers, Sequences, FiniteSets, TLC

\* largest finite magnitude of the modelled double (DBL_MAX scaled down)
MaxMag == 8

\* number of in-place arithmetic operations applied to an object since it
\* was last constructed
MaxDepth == 1

----------------------------------------------------------------------------
\* double: representation

RECURSIVE GCD(_, _)
GCD(m, n) == IF n = 0 THEN m ELSE GCD(n, m % n)

NaN == [k |-> "nan", s |-> 1, n |-> 0, d |-> 1]

Inf(sgn) == [k |-> "inf", s |-> sgn, n |-> 0, d |-> 1]

Zero(sgn) == [k |-> "fin", s |-> sgn, n |-> 0, d |-> 1]

\* the double nearest to sgn * num / den (num >= 0, den > 0)
Round(sgn, num, den) ==
    IF num = 0 THEN Zero(sgn)
    ELSE IF num > MaxMag * den THEN Inf(sgn)
    ELSE IF num * MaxMag < den THEN Zero(sgn)
    ELSE LET g == GCD(num, den)
         IN  [k |-> "fin", s |-> sgn, n |-> num \div g, d |-> den \div g]

\* the literal num/den, num an integer
Lit(num, den) == Round(IF num < 0 THEN -1 ELSE 1,
                       IF num < 0 THEN -num ELSE num, den)

IsNaN(x) == x.k = "nan"

IsInf(x) == x.k = "inf"

IsFinite(x) == x.k = "fin"

IsZero(x) == x.k = "fin" /\ x.n = 0

----------------------------------------------------------------------------
\* double: arithmetic and comparison (IEEE-754 special cases)

\* unary minus
FNeg(x) == IF IsNaN(x) THEN NaN ELSE [x EXCEPT !.s = -x.s]

\* std::abs
FAbs(x) == IF IsNaN(x) THEN NaN ELSE [x EXCEPT !.s = 1]

\* x + y
FAdd(x, y) ==
    IF IsNaN(x) \/ IsNaN(y) THEN NaN
    ELSE IF IsInf(x) /\ IsInf(y) THEN (IF x.s = y.s THEN x ELSE NaN)
    ELSE IF IsInf(x) THEN x
    ELSE IF IsInf(y) THEN y
    ELSE LET num == x.s * x.n * y.d + y.s * y.n * x.d
         IN  IF num = 0
             THEN (IF IsZero(x) /\ IsZero(y) /\ x.s = y.s
                   THEN Zero(x.s) ELSE Zero(1))
             ELSE Round(IF num < 0 THEN -1 ELSE 1,
                        IF num < 0 THEN -num ELSE num, x.d * y.d)

\* x - y
FSub(x, y) == FAdd(x, FNeg(y))

\* x * y
FMul(x, y) ==
    IF IsNaN(x) \/ IsNaN(y) THEN NaN
    ELSE IF (IsInf(x) /\ IsZero(y)) \/ (IsZero(x) /\ IsInf(y)) THEN NaN
    ELSE IF IsInf(x) \/ IsInf(y) THEN Inf(x.s * y.s)
    ELSE Round(x.s * y.s, x.n * y.n, x.d * y.d)

\* x / y
FDiv(x, y) ==
    IF IsNaN(x) \/ IsNaN(y) THEN NaN
    ELSE IF (IsInf(x) /\ IsInf(y)) \/ (IsZero(x) /\ IsZero(y)) THEN NaN
    ELSE IF IsInf(x) THEN Inf(x.s * y.s)
    ELSE IF IsInf(y) THEN Zero(x.s * y.s)
    ELSE IF IsZero(y) THEN Inf(x.s * y.s)
    ELSE Round(x.s * y.s, x.n * y.d, x.d * y.n)

\* x < y
FLt(x, y) ==
    IF IsNaN(x) \/ IsNaN(y) THEN FALSE
    ELSE IF IsInf(x) THEN x.s = -1 /\ ~(IsInf(y) /\ y.s = -1)
    ELSE IF IsInf(y) THEN y.s = 1
    ELSE x.s * x.n * y.d < y.s * y.n * x.d

\* x == y on doubles: a NaN equals nothing, the two zeros are equal
FEq(x, y) ==
    /\ ~IsNaN(x)
    /\ ~IsNaN(y)
    /\ \/ x = y
       \/ IsZero(x) /\ IsZero(y)

\* std::numeric_limits<double>::epsilon(), on the model's scale
Epsilon == Lit(1, 4)

----------------------------------------------------------------------------
\* class DualNumber.  An object is a record [primal, dual]; the operators
\* take a store h mapping object names to objects, and the names of the
\* objects they are called on, so that a reference parameter may name the
\* object the operator is writing to.

\* the objects of the caller
Objects == {"a", "b"}

\* the slot of a parameter passed by value (operator+(DualNumber left, ...))
\* or of a temporary
Slots == Objects \cup {"t"}

\* DualNumber()
DualNumber0 == [primal |-> Zero(1), dual |-> Zero(1)]

\* DualNumber(double primal) initialising both members from primal
DualNumber1Both(primal) == [primal |-> primal, dual |-> primal]

\* explicit DualNumber(double primal)
DualNumber1(primal) == [primal |-> primal, dual |-> Zero(1)]

\* DualNumber(double primal, double dual)
DualNumber2(primal, dual) == [primal |-> primal, dual |-> dual]

\* primal(double value)
SetPrimal(h, this, value) == [h EXCEPT ![this].primal = value]

\* dual(double value) assigning m_primal
SetDualToPrimal(h, this, value) == [h EXCEPT ![this].primal = value]

\* dual(double value)
SetDual(h, this, value) == [h EXCEPT ![this].dual = value]

\* a write through the reference primal() -> double & returns
WritePrimal(h, this, value) == [h EXCEPT ![this].primal = value]

\* a write through the reference dual() -> double & returns
WriteDual(h, this, value) == [h EXCEPT ![this].dual = value]

\* primal() const
GetPrimal(h, this) == h[this].primal

\* dual() const
GetDual(h, this) == h[this].dual

\* operator-() negating the primal component alone
OpNegMemberPrimalOnly(h, this) ==
    [primal |-> FNeg(h[this].primal), dual |-> h[this].dual]

\* DualNumber::operator-()
OpNegMember(h, this) ==
    DualNumber2(FNeg(GetPrimal(h, this)), FNeg(GetDual(h, this)))

\* operator== with <= in place of <
OpEqLe(h, this, other) ==
    LET dp == FAbs(FSub(h[this].primal, h[other].primal))
        dd == FAbs(FSub(h[this].dual, h[other].dual))
    IN  \/ this = other
        \/ /\ FLt(dp, Epsilon) \/ FEq(dp, Epsilon)
           /\ FLt(dd, Epsilon) \/ FEq(dd, Epsilon)

\* operator== comparing this->dual() with other.primal()
OpEqCross(h, this, other) ==
    \/ this = other
    \/ /\ FLt(FAbs(FSub(h[this].primal, h[other].primal)), Epsilon)
       /\ FLt(FAbs(FSub(h[this].dual, h[other].primal)), Epsilon)

\* operator==(const DualNumber &other) const
OpEq(h, this, other) ==
    \/ this = other
    \/ /\ FLt(FAbs(FSub(GetPrimal(h, this), GetPrimal(h, other))), Epsilon)
       /\ FLt(FAbs(FSub(GetDual(h, this), GetDual(h, other))), Epsilon)

\* operator!=(const DualNumber &other) const
OpNe(h, this, other) == ~OpEq(h, this, other)

\* operator+=(const DualNumber &other): the store after the call
OpAddAssign(h, this, other) ==
    LET h1 == WritePrimal(h, this, FAdd(GetPrimal(h, this), GetPrimal(h, other)))
    IN  WriteDual(h1, this, FAdd(GetDual(h1, this), GetDual(h1, other)))

\* operator+=(const double n)
OpAddAssignScalar(h, this, n) ==
    WritePrimal(h, this, FAdd(GetPrimal(h, this), n))

\* operator-=(const DualNumber &other)
OpSubAssign(h, this, other) ==
    LET h1 == WritePrimal(h, this, FSub(GetPrimal(h, this), GetPrimal(h, other)))
    IN  WriteDual(h1, this, FSub(GetDual(h1, this), GetDual(h1, other)))

\* operator-=(const double n)
OpSubAssignScalar(h, this, n) ==
    WritePrimal(h, this, FSub(GetPrimal(h, this), n))

\* operator*= without the saved components: primal() is read after it has
\* been written
OpMulAssignUnsaved(h, this, other) ==
    LET h1 == WritePrimal(h, this, FMul(GetPrimal(h, this), GetPrimal(h, other)))
    IN  WriteDual(h1, this, FAdd(FMul(GetPrimal(h1, this), GetDual(h1, other)),
                                 FMul(GetDual(h1, this), GetPrimal(h1, other))))

\* operator*=(const DualNumber &other): other is read again after primal()
\* has been written
OpMulAssign(h, this, other) ==
    LET primal_comp == GetPrimal(h, this)
        dual_comp == GetDual(h, this)
        h1 == WritePrimal(h, this, FMul(primal_comp, GetPrimal(h, other)))
    IN  WriteDual(h1, this, FAdd(FMul(primal_comp, GetDual(h1, other)),
                               FMul(dual_comp, GetPrimal(h1, other))))

\* operator*=(const double scalar) scaling the primal component alone
OpMulAssignScalarPrimalOnly(h, this, scalar) ==
    [h EXCEPT ![this].primal = FMul(scalar, h[this].primal)]

\* operator*=(const double scalar)
OpMulAssignScalar(h, this, scalar) ==
    LET h1 == WritePrimal(h, this, FMul(scalar, GetPrimal(h, this)))
    IN  WriteDual(h1, this, FMul(scalar, GetDual(h1, this)))

\* operator/= with the terms of the numerator exchanged
OpDivAssignSwapped(h, this, other) ==
    LET primal_comp == GetPrimal(h, this)
        dual_comp == GetDual(h, this)
        h1 == WritePrimal(h, this, FDiv(primal_comp, GetPrimal(h, other)))
    IN  WriteDual(h1, this,
                  FDiv(FSub(FMul(primal_comp, GetDual(h1, other)),
                            FMul(dual_comp, GetPrimal(h1, other))),
                       FMul(GetPrimal(h1, other), GetPrimal(h1, other))))

\* operator/= leaving *this as it is when the divisor's primal is zero
OpDivAssignGuarded(h, this, other) ==
    IF IsZero(GetPrimal(h, other)) THEN h
    ELSE LET primal_comp == GetPrimal(h, this)
             dual_comp == GetDual(h, this)
             h1 == WritePrimal(h, this,
                               FDiv(primal_comp, GetPrimal(h, other)))
         IN  WriteDual(h1, this,
                       FDiv(FSub(FMul(dual_comp, GetPrimal(h1, other)),
                                 FMul(primal_comp, GetDual(h1, other))),
                            FMul(GetPrimal(h1, other), GetPrimal(h1, other))))

\* operator/=(const DualNumber &other)
OpDivAssign(h, this, other) ==
    LET primal_comp == GetPrimal(h, this)
        dual_comp == GetDual(h, this)
        h1 == WritePrimal(h, this, FDiv(primal_comp, GetPrimal(h, other)))
    IN  WriteDual(h1, this,
                FDiv(FSub(FMul(dual_comp, GetPrimal(h1, other)),
                          FMul(primal_comp, GetDual(h1, other))),
                     FMul(GetPrimal(h1, other), GetPrimal(h1, other))))

\* operator/=(const double scalar)
OpDivAssignScalar(h, this, scalar) ==
    LET h1 == WritePrimal(h, this, FDiv(GetPrimal(h, this), scalar))
    IN  WriteDual(h1, this, FDiv(GetDual(h1, this), scalar))

----------------------------------------------------------------------------
\* free operators.  A by-value parameter is a copy of the argument in the
\* slot "t"; the result is the value returned.

ByValue(h, arg) == [h EXCEPT !["t"] = h[arg]]

\* operator+(DualNumber left, const DualNumber &right)
OpAdd(h, left, right) == OpAddAssign(ByValue(h, left), "t", right)["t"]

\* operator+(DualNumber num, const double n)
OpAddScalar(h, num, n) == OpAddAssignScalar(ByValue(h, num), "t", n)["t"]

\* operator+(const double n, DualNumber num)
OpScalarAdd(h, n, num) == OpAddAssignScalar(ByValue(h, num), "t", n)["t"]

\* operator-(DualNumber left, const DualNumber &right)
OpSub(h, left, right) == OpSubAssign(ByValue(h, left), "t", right)["t"]

\* operator-(const DualNumber &num)
OpNegFree(h, num) ==
    DualNumber2(FNeg(GetPrimal(h, num)), FNeg(GetDual(h, num)))

\* operator-(DualNumber num, const double n)
OpSubScalar(h, num, n) == OpSubAssignScalar(ByValue(h, num), "t", n)["t"]

\* operator-(const double n, DualNumber num)
OpScalarSub(h, n, num) ==
    LET h0 == ByValue(h, num)
        h1 == WritePrimal(h0, "t", FSub(n, GetPrimal(h0, "t")))
    IN  WriteDual(h1, "t", FNeg(GetDual(h1, "t")))["t"]

\* operator*(DualNumber left, const DualNumber &right)
OpMul(h, left, right) == OpMulAssign(ByValue(h, left), "t", right)["t"]

\* operator*(const double scalar, DualNumber num)
OpScalarMul(h, scalar, num) ==
    OpMulAssignScalar(ByValue(h, num), "t", scalar)["t"]

\* operator*(DualNumber num, const double scalar)
OpMulScalar(h, num, scalar) ==
    OpMulAssignScalar(ByValue(h, num), "t", scalar)["t"]

\* operator/ with the operands exchanged
OpDivExchanged(h, left, right) ==
    OpDivAssign(ByValue(h, right), "t", left)["t"]

\* operator/(DualNumber left, const DualNumber &right)
OpDiv(h, left, right) == OpDivAssign(ByValue(h, left), "t", right)["t"]

\* operator/(DualNumber num, const double scalar)
OpDivScalar(h, num, scalar) ==
    OpDivAssignScalar(ByValue(h, num), "t", scalar)["t"]

----------------------------------------------------------------------------
\* the caller: two DualNumber objects a and b, and the calls made on them

VARIABLES
    obj,    \* the caller's objects: obj["a"], obj["b"]
    depth,  \* in-place arithmetic applied to a since a was constructed
    ret,    \* what the last call returned
    last,   \* the last call: its name, its operands and their values before
    calls   \* the arguments the user function was invoked with, in order

vars == <<obj, depth, ret, last, calls>>

\* the doubles the caller passes in
Vals == {Lit(0, 1), Lit(1, 2), Lit(2, 1), Lit(-4, 1)}

NoRet == [num |-> DualNumber0, flag |-> FALSE, val |-> Zero(1),
          vec |-> <<>>, mat |-> <<>>]

RetNum(r) == [NoRet EXCEPT !.num = r]

RetFlag(r) == [NoRet EXCEPT !.flag = r]

RetVal(r) == [NoRet EXCEPT !.val = r]

NoCall == [op |-> "none", this |-> "a", other |-> "a", x |-> DualNumber0,
           y |-> DualNumber0, n |-> Zero(1), m |-> Zero(1), f |-> "none",
           u |-> <<>>, fs |-> <<>>, e |-> <<>>, w |-> <<>>]

\* a call on the object this, with the second operand other
Call(op, this, other) ==
    [NoCall EXCEPT !.op = op, !.this = this, !.other = other,
                   !.x = obj[this], !.y = obj[other]]

\* a call on the object this with a scalar operand
CallScalar(op, this, n) ==
    [NoCall EXCEPT !.op = op, !.this = this, !.other = this,
                   !.x = obj[this], !.y = obj[this], !.n = n]

\* the store the operators work on: the caller's objects and a free slot
Heap == [s \in Slots |-> IF s \in Objects THEN obj[s] ELSE DualNumber0]

\* what the store leaves in the caller's objects
Commit(h) == [o \in Objects |-> h[o]]

Init ==
    /\ obj = [o \in Objects |-> DualNumber0]
    /\ depth = 0
    /\ ret = NoRet
    /\ last = NoCall
    /\ calls = <<>>

\* a = DualNumber{}, b = DualNumber{}
Construct0 ==
    \E o \in Objects :
        /\ obj' = [obj EXCEPT ![o] = DualNumber0]
        /\ depth' = IF o = "a" THEN 0 ELSE depth
        /\ ret' = NoRet
        /\ last' = [NoCall EXCEPT !.op = "ctor0", !.this = o]
        /\ UNCHANGED calls

\* a = DualNumber{primal}
Construct1 ==
    \E o \in Objects, primal \in Vals :
        /\ obj' = [obj EXCEPT ![o] = DualNumber1(primal)]
        /\ depth' = IF o = "a" THEN 0 ELSE depth
        /\ ret' = NoRet
        /\ last' = [NoCall EXCEPT !.op = "ctor1", !.this = o, !.n = primal]
        /\ UNCHANGED calls

\* a = DualNumber{primal, dual}
Construct2 ==
    \E o \in Objects, primal \in Vals, dual \in Vals :
        /\ obj' = [obj EXCEPT ![o] = DualNumber2(primal, dual)]
        /\ depth' = IF o = "a" THEN 0 ELSE depth
        /\ ret' = NoRet
        /\ last' = [NoCall EXCEPT !.op = "ctor2", !.this = o, !.n = primal,
                                  !.m = dual]
        /\ UNCHANGED calls

\* a call that changes a: the store after it, and the reference it returns
InPlace(record, h) ==
    /\ obj' = Commit(h)
    /\ ret' = RetNum(h["a"])
    /\ last' = record
    /\ UNCHANGED calls

\* a call on const operands: what it returns
Returns(record, r) ==
    /\ ret' = r
    /\ last' = record
    /\ UNCHANGED calls

\* a.primal(value)
DoSetPrimal ==
    \E value \in Vals :
        /\ InPlace(CallScalar("set_primal", "a", value),
                   SetPrimal(Heap, "a", value))
        /\ UNCHANGED depth

\* a.dual(value)
DoSetDual ==
    \E value \in Vals :
        /\ InPlace(CallScalar("set_dual", "a", value),
                   SetDual(Heap, "a", value))
        /\ UNCHANGED depth

\* a.primal() = value
DoWritePrimal ==
    \E value \in Vals :
        /\ InPlace(CallScalar("write_primal", "a", value),
                   WritePrimal(Heap, "a", value))
        /\ UNCHANGED depth

\* a.dual() = value
DoWriteDual ==
    \E value \in Vals :
        /\ InPlace(CallScalar("write_dual", "a", value),
                   WriteDual(Heap, "a", value))
        /\ UNCHANGED depth

\* a.primal()
DoGetPrimal ==
    /\ Returns(Call("get_primal", "a", "a"), RetVal(GetPrimal(Heap, "a")))
    /\ UNCHANGED <<obj, depth>>

\* a.dual()
DoGetDual ==
    /\ Returns(Call("get_dual", "a", "a"), RetVal(GetDual(Heap, "a")))
    /\ UNCHANGED <<obj, depth>>

\* a.operator-()
DoNegMember ==
    /\ Returns(Call("neg_member", "a", "a"), RetNum(OpNegMember(Heap, "a")))
    /\ UNCHANGED <<obj, depth>>

\* operator-(a)
DoNegFree ==
    /\ Returns(Call("neg_free", "a", "a"), RetNum(OpNegFree(Heap, "a")))
    /\ UNCHANGED <<obj, depth>>

\* a += other, where other is b or a itself
DoAddAssign ==
    \E other \in Objects :
        /\ depth < MaxDepth
        /\ InPlace(Call("add_assign", "a", other),
                   OpAddAssign(Heap, "a", other))
        /\ depth' = depth + 1

\* a -= other
DoSubAssign ==
    \E other \in Objects :
        /\ depth < MaxDepth
        /\ InPlace(Call("sub_assign", "a", other),
                   OpSubAssign(Heap, "a", other))
        /\ depth' = depth + 1

\* a *= other
DoMulAssign ==
    \E other \in Objects :
        /\ depth < MaxDepth
        /\ InPlace(Call("mul_assign", "a", other),
                   OpMulAssign(Heap, "a", other))
        /\ depth' = depth + 1

\* a /= other
DoDivAssign ==
    \E other \in Objects :
        /\ depth < MaxDepth
        /\ InPlace(Call("div_assign", "a", other),
                   OpDivAssign(Heap, "a", other))
        /\ depth' = depth + 1

\* a + other
DoAdd ==
    \E other \in Objects :
        /\ Returns(Call("add", "a", other), RetNum(OpAdd(Heap, "a", other)))
        /\ UNCHANGED <<obj, depth>>

\* a - other
DoSub ==
    \E other \in Objects :
        /\ Returns(Call("sub", "a", other), RetNum(OpSub(Heap, "a", other)))
        /\ UNCHANGED <<obj, depth>>

\* a * other
DoMul ==
    \E other \in Objects :
        /\ Returns(Call("mul", "a", other), RetNum(OpMul(Heap, "a", other)))
        /\ UNCHANGED <<obj, depth>>

\* a / other
DoDiv ==
    \E other \in Objects :
        /\ Returns(Call("div", "a", other), RetNum(OpDiv(Heap, "a", other)))
        /\ UNCHANGED <<obj, depth>>

\* the caller constructs, sets, reads and negates
Next ==
    \/ Construct0
    \/ Construct1
    \/ Construct2
    \/ DoSetPrimal
    \/ DoSetDual
    \/ DoWritePrimal
    \/ DoWriteDual
    \/ DoGetPrimal
    \/ DoGetDual
    \/ DoNegMember
    \/ DoNegFree

Spec == Init /\ [][Next]_vars

\* the objects DualNumber{primal, dual} the caller can construct from Vals
DualVals == {DualNumber2(primal, dual) : primal \in Vals, dual \in Vals}

\* a and b constructed, no call made yet
InitArith ==
    /\ obj \in [Objects -> DualVals]
    /\ depth = 0
    /\ ret = NoRet
    /\ last = NoCall
    /\ calls = <<>>

\* the caller does arithmetic on a, with b or a itself as second operand
NextArith ==
    \/ DoAddAssign
    \/ DoSubAssign
    \/ DoMulAssign
    \/ DoDivAssign
    \/ DoAdd
    \/ DoSub
    \/ DoMul
    \/ DoDiv

SpecArith == InitArith /\ [][NextArith]_vars

----------------------------------------------------------------------------
\* arithmetic with a plain scalar

\* a += n
DoAddAssignScalar ==
    \E n \in Vals :
        /\ depth < MaxDepth
        /\ InPlace(CallScalar("add_assign_scalar", "a", n),
                   OpAddAssignScalar(Heap, "a", n))
        /\ depth' = depth + 1

\* a -= n
DoSubAssignScalar ==
    \E n \in Vals :
        /\ depth < MaxDepth
        /\ InPlace(CallScalar("sub_assign_scalar", "a", n),
                   OpSubAssignScalar(Heap, "a", n))
        /\ depth' = depth + 1

\* a *= scalar
DoMulAssignScalar ==
    \E scalar \in Vals :
        /\ depth < MaxDepth
        /\ InPlace(CallScalar("mul_assign_scalar", "a", scalar),
                   OpMulAssignScalar(Heap, "a", scalar))
        /\ depth' = depth + 1

\* a /= scalar
DoDivAssignScalar ==
    \E scalar \in Vals :
        /\ depth < MaxDepth
        /\ InPlace(CallScalar("div_assign_scalar", "a", scalar),
                   OpDivAssignScalar(Heap, "a", scalar))
        /\ depth' = depth + 1

\* a + n
DoAddScalar ==
    \E n \in Vals :
        /\ Returns(CallScalar("add_scalar", "a", n),
                   RetNum(OpAddScalar(Heap, "a", n)))
        /\ UNCHANGED <<obj, depth>>

\* n + a
DoScalarAdd ==
    \E n \in Vals :
        /\ Returns(CallScalar("scalar_add", "a", n),
                   RetNum(OpScalarAdd(Heap, n, "a")))
        /\ UNCHANGED <<obj, depth>>

\* a - n
DoSubScalar ==
    \E n \in Vals :
        /\ Returns(CallScalar("sub_scalar", "a", n),
                   RetNum(OpSubScalar(Heap, "a", n)))
        /\ UNCHANGED <<obj, depth>>

\* n - a
DoScalarSub ==
    \E n \in Vals :
        /\ Returns(CallScalar("scalar_sub", "a", n),
                   RetNum(OpScalarSub(Heap, n, "a")))
        /\ UNCHANGED <<obj, depth>>

\* a * scalar
DoMulScalar ==
    \E scalar \in Vals :
        /\ Returns(CallScalar("mul_scalar", "a", scalar),
                   RetNum(OpMulScalar(Heap, "a", scalar)))
        /\ UNCHANGED <<obj, depth>>

\* scalar * a
DoScalarMul ==
    \E scalar \in Vals :
        /\ Returns(CallScalar("scalar_mul", "a", scalar),
                   RetNum(OpScalarMul(Heap, scalar, "a")))
        /\ UNCHANGED <<obj, depth>>

\* a / scalar
DoDivScalar ==
    \E scalar \in Vals :
        /\ Returns(CallScalar("div_scalar", "a", scalar),
                   RetNum(OpDivScalar(Heap, "a", scalar)))
        /\ UNCHANGED <<obj, depth>>

\* a constructed, no call made yet
InitScalar ==
    /\ obj \in {[o \in Objects |-> IF o = "a" THEN v ELSE DualNumber0] :
                    v \in DualVals}
    /\ depth = 0
    /\ ret = NoRet
    /\ last = NoCall
    /\ calls = <<>>

\* the caller does arithmetic on a with a scalar as second operand
NextScalar ==
    \/ DoAddAssignScalar
    \/ DoSubAssignScalar
    \/ DoMulAssignScalar
    \/ DoDivAssignScalar
    \/ DoAddScalar
    \/ DoScalarAdd
    \/ DoSubScalar
    \/ DoScalarSub
    \/ DoMulScalar
    \/ DoScalarMul
    \/ DoDivScalar

SpecScalar == InitScalar /\ [][NextScalar]_vars

----------------------------------------------------------------------------
\* comparison

\* the doubles the caller compares: they differ by less than epsilon, by
\* epsilon and by more
CmpVals == {Lit(0, 1), Lit(1, 8), Lit(1, 4), Lit(2, 1)}

CmpDualVals == {DualNumber2(primal, dual) : primal \in CmpVals, dual \in CmpVals}

InitEq ==
    /\ obj \in [Objects -> CmpDualVals]
    /\ depth = 0
    /\ ret = NoRet
    /\ last = NoCall
    /\ calls = <<>>

\* a == other, where other is b or a itself
DoEq ==
    \E other \in Objects :
        /\ Returns(Call("eq", "a", other), RetFlag(OpEq(Heap, "a", other)))
        /\ UNCHANGED <<obj, depth>>

\* a != other
DoNe ==
    \E other \in Objects :
        /\ Returns(Call("ne", "a", other), RetFlag(OpNe(Heap, "a", other)))
        /\ UNCHANGED <<obj, depth>>

\* DualNumber a_copy{a}; a == a_copy
DoEqCopy ==
    /\ Returns(Call("eq_copy", "a", "a"),
               RetFlag(OpEq(ByValue(Heap, "a"), "a", "t")))
    /\ UNCHANGED <<obj, depth>>

\* DualNumber a_copy{a}; a != a_copy
DoNeCopy ==
    /\ Returns(Call("ne_copy", "a", "a"),
               RetFlag(OpNe(ByValue(Heap, "a"), "a", "t")))
    /\ UNCHANGED <<obj, depth>>

\* the caller divides a, which can leave a NaN or an infinity in it, and
\* compares
NextEq ==
    \/ DoDivAssign
    \/ DoEq
    \/ DoNe
    \/ DoEqCopy
    \/ DoNeCopy

SpecEq == InitEq /\ [][NextEq]_vars

----------------------------------------------------------------------------
\* forward_mode.hpp: evaluate and derivative of a function of one variable

\* the store of a user function whose operands hold the values u and v
Operands(u, v) ==
    [s \in Slots |-> IF s = "a" THEN u ELSE IF s = "b" THEN v ELSE DualNumber0]

\* the functions the caller differentiates
Functions ==
    {"identity", "square", "cube", "affine", "ratio", "negate", "constant",
     "self_ratio"}

\* f(num), for f a function [](DualNumber num) -> DualNumber written with
\* the operators of DualNumber
Apply(f, num) ==
    LET h == Operands(num, num)
    IN  CASE f = "identity" -> num
          [] f = "square" -> OpMul(h, "a", "a")
          [] f = "cube" ->
                OpMul(Operands(OpMul(h, "a", "a"), num), "a", "b")
          [] f = "affine" ->
                OpAddScalar(Operands(OpScalarMul(h, Lit(2, 1), "a"), num),
                            "a", Lit(1, 1))
          [] f = "ratio" ->
                OpDiv(Operands(num, OpAddScalar(h, "a", Lit(1, 1))), "a", "b")
          [] f = "negate" -> OpNegFree(h, "a")
          [] f = "constant" -> DualNumber1(Lit(2, 1))
          [] f = "self_ratio" -> OpDiv(h, "a", "a")

\* evaluate seeding the DualNumber with dual 0
EvaluateUnseeded(f, u) ==
    LET arg == DualNumber2(u, Zero(1))
    IN  [calls |-> <<arg>>, value |-> Apply(f, arg)]

\* evaluate(F &&f, double u): the invocations of f and the value returned
Evaluate(f, u) ==
    LET arg == DualNumber2(u, Lit(1, 1))
    IN  [calls |-> <<arg>>, value |-> Apply(f, arg)]

\* derivative(F &&f, double u)
Derivative(f, u) ==
    LET evaluation == Evaluate(f, u)
    IN  [calls |-> evaluation.calls,
         value |-> GetDual(Operands(evaluation.value, evaluation.value), "a")]

\* the points the caller evaluates at
EvalVals ==
    {Lit(0, 1), Lit(1, 2), Lit(1, 1), Lit(2, 1), Lit(3, 1), Lit(-1, 1),
     Lit(-4, 1), Lit(-1, 2)}

\* evaluate(f, u)
DoEvaluate ==
    \E f \in Functions, u \in EvalVals :
        /\ calls' = Evaluate(f, u).calls
        /\ ret' = RetNum(Evaluate(f, u).value)
        /\ last' = [NoCall EXCEPT !.op = "evaluate", !.f = f, !.n = u]
        /\ UNCHANGED <<obj, depth>>

\* derivative(f, u)
DoDerivative ==
    \E f \in Functions, u \in EvalVals :
        /\ calls' = Derivative(f, u).calls
        /\ ret' = RetVal(Derivative(f, u).value)
        /\ last' = [NoCall EXCEPT !.op = "derivative", !.f = f, !.n = u]
        /\ UNCHANGED <<obj, depth>>

NextEval ==
    \/ DoEvaluate
    \/ DoDerivative

SpecEval == Init /\ [][NextEval]_vars

----------------------------------------------------------------------------
\* properties of the arithmetic of two DualNumbers (SpecArith)

\* the second operand is an object other than the one written to: always
\* so for a value-returning operator, whose left operand is a copy
Distinct == last.other # last.this \/ last.op \in {"add", "sub", "mul", "div"}

\* C1: multiplying a = (p1, d1) by b = (p2, d2), as a * b or as a *= b on
\* distinct objects, yields primal p1*p2 and dual p1*d2 + d1*p2, for all
\* operand values.
C1_ProductRule ==
    (last.op \in {"mul", "mul_assign"} /\ Distinct) =>
        LET p1 == last.x.primal
            d1 == last.x.dual
            p2 == last.y.primal
            d2 == last.y.dual
            product == DualNumber2(FMul(p1, p2),
                                   FAdd(FMul(p1, d2), FMul(d1, p2)))
        IN  /\ ret.num = product
            /\ last.op = "mul_assign" => obj["a"] = product

\* a *= b has run on distinct objects whose four components are non-zero,
\* and left a finite non-zero dual
C1_Witness ==
    /\ last.op = "mul_assign"
    /\ last.other = "b"
    /\ ~IsZero(last.x.primal) /\ ~IsZero(last.x.dual)
    /\ ~IsZero(last.y.primal) /\ ~IsZero(last.y.dual)
    /\ IsFinite(obj["a"].dual) /\ ~IsZero(obj["a"].dual)

\* C2: dividing a = (p1, d1) by b = (p2, d2) with p2 # 0, as a / b or as
\* a /= b on distinct objects, yields primal p1/p2 and dual
\* (d1*p2 - p1*d2) / (p2*p2).
C2_QuotientRule ==
    (last.op \in {"div", "div_assign"} /\ Distinct
        /\ ~IsZero(last.y.primal)) =>
        LET p1 == last.x.primal
            d1 == last.x.dual
            p2 == last.y.primal
            d2 == last.y.dual
            quotient == DualNumber2(FDiv(p1, p2),
                                    FDiv(FSub(FMul(d1, p2), FMul(p1, d2)),
                                         FMul(p2, p2)))
        IN  /\ ret.num = quotient
            /\ last.op = "div_assign" => obj["a"] = quotient

\* a / b has run with a non-zero divisor and four non-zero components, and
\* returned a finite non-zero dual
C2_Witness ==
    /\ last.op = "div"
    /\ last.other = "b"
    /\ ~IsZero(last.x.primal) /\ ~IsZero(last.x.dual)
    /\ ~IsZero(last.y.primal) /\ ~IsZero(last.y.dual)
    /\ IsFinite(ret.num.dual) /\ ~IsZero(ret.num.dual)

\* what x op y returns for operands holding the values x and y
ValueForm(op, x, y) ==
    LET h == [s \in Slots |-> IF s = "a" THEN x
                              ELSE IF s = "b" THEN y ELSE DualNumber0]
    IN  CASE op = "add_assign" -> OpAdd(h, "a", "b")
          [] op = "sub_assign" -> OpSub(h, "a", "b")
          [] op = "mul_assign" -> OpMul(h, "a", "b")
          [] op = "div_assign" -> OpDiv(h, "a", "b")

\* C3: for each of +, -, *, / the in-place form a op= b leaves a holding
\* the value a op b returns for the same operand values, and leaves b
\* unchanged unless b is a itself; also when the right operand is the
\* object a itself.
C3_InPlaceIsValueForm ==
    last.op \in {"add_assign", "sub_assign", "mul_assign", "div_assign"} =>
        /\ obj["a"] = ValueForm(last.op, last.x, last.y)
        /\ last.other # last.this => obj[last.other] = last.y

----------------------------------------------------------------------------
\* properties of the arithmetic with a scalar (SpecScalar)

\* the same pair of doubles, compared as C++ compares doubles
SamePair(u, v) == FEq(u.primal, v.primal) /\ FEq(u.dual, v.dual)

\* what the DualNumber-DualNumber operator returns for a holding x and
\* DualNumber(n, 0) in place of the scalar n
DualForm(op, x, n) ==
    LET h == [s \in Slots |-> IF s = "a" THEN x
                              ELSE IF s = "b" THEN DualNumber2(n, Zero(1))
                              ELSE DualNumber0]
    IN  CASE op \in {"add_scalar", "add_assign_scalar"} -> OpAdd(h, "a", "b")
          [] op = "scalar_add" -> OpAdd(h, "b", "a")
          [] op \in {"sub_scalar", "sub_assign_scalar"} -> OpSub(h, "a", "b")
          [] op = "scalar_sub" -> OpSub(h, "b", "a")
          [] op \in {"mul_scalar", "mul_assign_scalar"} -> OpMul(h, "a", "b")
          [] op = "scalar_mul" -> OpMul(h, "b", "a")
          [] op \in {"div_scalar", "div_assign_scalar"} -> OpDiv(h, "a", "b")

AddSubMulScalar ==
    {"add_scalar", "scalar_add", "sub_scalar", "scalar_sub", "mul_scalar",
     "scalar_mul", "add_assign_scalar", "sub_assign_scalar",
     "mul_assign_scalar"}

DivScalar == {"div_scalar", "div_assign_scalar"}

FiniteOperands ==
    IsFinite(last.x.primal) /\ IsFinite(last.x.dual) /\ IsFinite(last.n)

\* C4 as stated: for a with finite components and finite n, every scalar
\* form, a / n (n # 0) among them, gives the pair the DualNumber-DualNumber
\* operator gives for a and DualNumber(n, 0).
C4_ScalarIsDualWithZero ==
    (/\ last.op \in AddSubMulScalar \cup DivScalar
     /\ FiniteOperands
     /\ last.op \in DivScalar => ~IsZero(last.n)) =>
        SamePair(ret.num, DualForm(last.op, last.x, last.n))

\* C4, amended: the forms of +, - and * give the pair of the
\* DualNumber-DualNumber operator on a and DualNumber(n, 0); a / n and
\* a /= n (n # 0) give (p/n, d/n), each component divided by n once.
C4_ScalarForms ==
    /\ (last.op \in AddSubMulScalar /\ FiniteOperands) =>
           SamePair(ret.num, DualForm(last.op, last.x, last.n))
    /\ (last.op \in DivScalar /\ FiniteOperands /\ ~IsZero(last.n)) =>
           ret.num = DualNumber2(FDiv(last.x.primal, last.n),
                                 FDiv(last.x.dual, last.n))
    /\ last.op \in {"add_assign_scalar", "sub_assign_scalar",
                    "mul_assign_scalar", "div_assign_scalar"} =>
           obj["a"] = ret.num

\* scalar * a has run on finite non-zero operands and scaled the dual
C4_Witness ==
    /\ last.op = "scalar_mul"
    /\ FiniteOperands
    /\ ~IsZero(last.n) /\ ~IsZero(last.x.primal) /\ ~IsZero(last.x.dual)
    /\ IsFinite(ret.num.dual) /\ ret.num.dual # last.x.dual

----------------------------------------------------------------------------
\* properties of construction, access and negation (Spec)

\* C5: negation of (p, d) returns (-p, -d) and leaves the operand
\* unchanged, for the member operator- and for the free operator-.
C5_Negation ==
    last.op \in {"neg_member", "neg_free"} =>
        /\ ret.num = DualNumber2(FNeg(last.x.primal), FNeg(last.x.dual))
        /\ obj["a"] = last.x

\* the member operator- has run on a DualNumber with two non-zero components
C5_Witness ==
    /\ last.op = "neg_member"
    /\ ~IsZero(last.x.primal) /\ ~IsZero(last.x.dual)
    /\ ret.num.dual.s # last.x.dual.s

\* C6: DualNumber() is (0, 0), DualNumber(p) is (p, 0) and
\* DualNumber(p, d) is (p, d).
C6_Construction ==
    /\ last.op = "ctor0" =>
           obj[last.this] = [primal |-> Zero(1), dual |-> Zero(1)]
    /\ last.op = "ctor1" =>
           obj[last.this] = [primal |-> last.n, dual |-> Zero(1)]
    /\ last.op = "ctor2" =>
           obj[last.this] = [primal |-> last.n, dual |-> last.m]

\* DualNumber(p) has been constructed from a non-zero p
C6_Witness ==
    /\ last.op = "ctor1"
    /\ ~IsZero(last.n)
    /\ obj[last.this].primal = last.n

----------------------------------------------------------------------------
\* properties of comparison (SpecEq)

\* |x - y| < epsilon
Within(x, y) == FLt(FAbs(FSub(x, y)), Epsilon)

\* C8: for distinct objects a and b, a == b is true exactly when both
\* components differ by strictly less than epsilon, and a != b is the
\* negation of a == b.
C8_EpsilonEquality ==
    /\ (last.op = "eq" /\ last.other # last.this) =>
           ret.flag = (/\ Within(last.x.primal, last.y.primal)
                       /\ Within(last.x.dual, last.y.dual))
    /\ last.op = "ne" => ret.flag = ~OpEq(Heap, "a", last.other)

\* a == b has run on objects whose primals differ by exactly epsilon and
\* whose duals are equal, and returned false
C8_Witness ==
    /\ last.op = "eq"
    /\ last.other = "b"
    /\ FAbs(FSub(last.x.primal, last.y.primal)) = Epsilon
    /\ last.x.dual = last.y.dual
    /\ ret.flag = FALSE

SelfOrCopy ==
    \/ last.op \in {"eq", "ne"} /\ (last.other = last.this \/ last.y = last.x)
    \/ last.op \in {"eq_copy", "ne_copy"}

\* C9 as stated: every DualNumber equals itself and a copy of itself.
C9_EqualToSelfAndCopy ==
    SelfOrCopy => ret.flag = (last.op \in {"eq", "eq_copy"})

\* C9, amended: every DualNumber whose components are both finite equals
\* itself and a copy of itself, and then the result of == does not depend
\* on whether the operands are the same object.
C9_FiniteEqualToSelfAndCopy ==
    (SelfOrCopy /\ IsFinite(last.x.primal) /\ IsFinite(last.x.dual)) =>
        ret.flag = (last.op \in {"eq", "eq_copy"})

\* a == copy(a) has run on a DualNumber with distinct finite non-zero
\* components and returned true
C9_Witness ==
    /\ last.op = "eq_copy"
    /\ IsFinite(last.x.primal) /\ ~IsZero(last.x.primal)
    /\ IsFinite(last.x.dual) /\ ~IsZero(last.x.dual)
    /\ ~Within(last.x.primal, last.x.dual)
    /\ ret.flag = TRUE

----------------------------------------------------------------------------
\* properties of evaluate and derivative (SpecEval)

\* C10: evaluate(f, u) invokes f exactly once, on the DualNumber (u, 1.0),
\* and returns f's result unmodified; derivative(f, u) returns the dual
\* component of that result and also invokes f exactly once.
C10_EvaluateOnce ==
    last.op \in {"evaluate", "derivative"} =>
        LET seed == [primal |-> last.n, dual |-> Lit(1, 1)]
        IN  /\ calls = <<seed>>
            /\ last.op = "evaluate" => ret.num = Apply(last.f, seed)
            /\ last.op = "derivative" => ret.val = Apply(last.f, seed).dual

\* derivative(f, 3) has run for f(x) = x * x and returned 6
C10_Witness ==
    /\ last.op = "derivative"
    /\ last.f = "square"
    /\ last.n = Lit(3, 1)
    /\ Len(calls) = 1
    /\ ret.val = Lit(6, 1)

----------------------------------------------------------------------------
\* forward_mode.hpp: evaluate, gradient and jacobian over a vector of inputs

\* longest input vector u
MaxLen == 2

\* longest list of functions, and most outputs of a vector-valued function
MaxFuns == 2

\* user functions that take the vector by value or by const reference
PureFunctions == {"sum", "product", "first_squared", "ratio", "local_write"}

\* user functions that take the vector by mutable reference and write to it
WritingFunctions == {"consume_first", "leak_seed"}

VectorFunctions == PureFunctions \cup WritingFunctions

\* vector[0] (+ or *) vector[1] (+ or *) ... from index i on
RECURSIVE FoldVector(_, _, _, _)
FoldVector(op, vector, i, acc) ==
    IF i > Len(vector) THEN acc
    ELSE LET h == Operands(acc, vector[i])
         IN  FoldVector(op, vector, i + 1,
                        IF op = "add" THEN OpAdd(h, "a", "b")
                        ELSE OpMul(h, "a", "b"))

\* f(vector) for a scalar-valued user function: the DualNumber it returns
\* and the contents of the caller's vector when it returns
ApplyVector(f, vector) ==
    LET first == vector[1]
        back == vector[Len(vector)]
    IN  CASE f = "sum" ->
                [value |-> FoldVector("add", vector, 2, first),
                 arg |-> vector]
          [] f = "product" ->
                [value |-> FoldVector("mul", vector, 2, first),
                 arg |-> vector]
          [] f = "first_squared" ->
                [value |-> OpMul(Operands(first, first), "a", "a"),
                 arg |-> vector]
          [] f = "ratio" ->
                [value |-> OpDiv(Operands(first, back), "a", "b"),
                 arg |-> vector]
          [] f = "local_write" ->
                \* [](std::vector<DualNumber> x) { x[0] += x[0]; return x[0]; }
                [value |-> OpAddAssign(Operands(first, first), "a", "a")["a"],
                 arg |-> vector]
          [] f = "consume_first" ->
                \* [](std::vector<DualNumber> &x)
                \* { auto r = product(x); x[0].primal() = 0.0; return r; }
                [value |-> FoldVector("mul", vector, 2, first),
                 arg |-> WritePrimal(vector, 1, Zero(1))]
          [] f = "leak_seed" ->
                \* [](std::vector<DualNumber> &x)
                \* { auto r = sum(x); x.back().dual() = 1.0; return r; }
                [value |-> FoldVector("add", vector, 2, first),
                 arg |-> WriteDual(vector, Len(vector), Lit(1, 1))]

\* the element of a set of one element
The(S) == CHOOSE x \in S : TRUE

\* F(vector) for the vector-valued user function that returns
\* (fs[0](vector), ..., fs[m-1](vector)), evaluated in that order
RECURSIVE ApplyVectorFunction(_, _, _, _)
ApplyVectorFunction(fs, vector, j, result) ==
    IF j > Len(fs) THEN [value |-> result, arg |-> vector]
    ELSE The({ApplyVectorFunction(fs, r.arg, j + 1, Append(result, r.value)) :
                 r \in {ApplyVector(fs[j], vector)}})

\* std::transform(u, [](double x) { return DualNumber{x, 0.0}; })
DualNumbers(u) == [i \in 1..Len(u) |-> DualNumber2(u[i], Zero(1))]

\* the loop with the reset of the seed left out
RECURSIVE SeedLoopNoReset(_, _, _, _, _)
SeedLoopNoReset(f, dual_numbers, i, invoked, evaluations) ==
    IF i > Len(dual_numbers)
    THEN [calls |-> invoked, value |-> evaluations]
    ELSE LET seeded == WriteDual(dual_numbers, i, Lit(1, 1))
         IN  The({SeedLoopNoReset(f, r.arg, i + 1, Append(invoked, seeded),
                                  Append(evaluations, r.value)) :
                     r \in {ApplyVector(f, seeded)}})

\* the loop over dual_numbers from element i on: seed, invoke f, record the
\* evaluation, reset the seed
RECURSIVE SeedLoop(_, _, _, _, _)
SeedLoop(f, dual_numbers, i, invoked, evaluations) ==
    IF i > Len(dual_numbers)
    THEN [calls |-> invoked, value |-> evaluations]
    ELSE LET seeded == WriteDual(dual_numbers, i, Lit(1, 1))
         IN  The({SeedLoop(f, WriteDual(r.arg, i, Zero(1)), i + 1,
                           Append(invoked, seeded),
                           Append(evaluations, r.value)) :
                     r \in {ApplyVector(f, seeded)}})

\* evaluate(F &&f, const std::vector<double> &u)
EvaluateVector(f, u) == SeedLoop(f, DualNumbers(u), 1, <<>>, <<>>)

\* evaluate(F &&f, const Eigen::Matrix<double, InputSize, 1> &u)
EvaluateEigen(f, u) == SeedLoop(f, DualNumbers(u), 1, <<>>, <<>>)

\* std::transform(evaluations, [](const DualNumber &num) { return num.dual(); })
Duals(evaluations) ==
    [i \in 1..Len(evaluations) |-> GetDual(evaluations, i)]

\* gradient returning the evaluations in reverse order
GradientVectorReversed(f, u) ==
    LET evaluations == EvaluateVector(f, u)
        n == Len(evaluations.value)
    IN  [calls |-> evaluations.calls,
         value |-> [i \in 1..n |-> GetDual(evaluations.value, n + 1 - i)]]

\* gradient(F &&f, const std::vector<double> &u)
GradientVector(f, u) ==
    LET evaluations == EvaluateVector(f, u)
    IN  [calls |-> evaluations.calls, value |-> Duals(evaluations.value)]

\* gradient(F &&f, const Eigen::Matrix<double, InputSize, 1> &u)
GradientEigen(f, u) ==
    LET evaluations == EvaluateEigen(f, u)
    IN  [calls |-> evaluations.calls, value |-> Duals(evaluations.value)]

\* the rows of jacobian(f, u), f a std::vector of functions, from f[i] on
RECURSIVE RowLoop(_, _, _, _, _, _)
RowLoop(gradient, f, u, i, invoked, jac) ==
    IF i > Len(f) THEN [calls |-> invoked, value |-> jac]
    ELSE The({RowLoop(gradient, f, u, i + 1, invoked \o row.calls,
                      Append(jac, row.value)) :
                 row \in {IF gradient = "vector" THEN GradientVector(f[i], u)
                          ELSE GradientEigen(f[i], u)}})

\* the jacobian with every row taken from the first function
JacobianFunctionsFirstOnly(f, u) ==
    RowLoop("vector", [i \in 1..Len(f) |-> f[1]], u, 1, <<>>, <<>>)

\* the jacobian returning at once, with no rows, when u is empty
JacobianFunctionsEarlyReturn(f, u) ==
    IF Len(u) = 0 THEN [calls |-> <<>>, value |-> <<>>]
    ELSE RowLoop("vector", f, u, 1, <<>>, <<>>)

\* jacobian(const std::vector<F> &f, const std::vector<double> &u)
JacobianFunctions(f, u) == RowLoop("vector", f, u, 1, <<>>, <<>>)

\* jacobian(const std::vector<F> &f, const Eigen::VectorXd &u)
JacobianFunctionsEigen(f, u) == RowLoop("eigen", f, u, 1, <<>>, <<>>)

\* a double that has been allocated and not yet written
Uninitialized == [k |-> "uninitialized", s |-> 1, n |-> 0, d |-> 1]

\* Eigen::MatrixXd jac(rows, cols)
Matrix(rows, cols) == [j \in 1..rows |-> [i \in 1..cols |-> Uninitialized]]

\* jac.col(i)[j] = result[j].dual(), for j < FunctionSize
WriteColumn(jac, i, result) ==
    [j \in 1..Len(jac) |-> [jac[j] EXCEPT ![i] = GetDual(result, j)]]

\* the cells jac.col(i)[j], j < FunctionSize, in the order written
Cells(jac, i) == [j \in 1..Len(jac) |-> <<j, i>>]

\* what one iteration of the loop leaves behind: the working vector and the
\* cells of jac it wrote
Iteration(dual_numbers, cells) ==
    [dual_numbers |-> dual_numbers, cells |-> cells]

\* the loop over the columns with the reset of the seed left out
RECURSIVE ColumnLoopNoReset(_, _, _, _, _)
ColumnLoopNoReset(f, dual_numbers, i, invoked, jac) ==
    IF i > Len(dual_numbers)
    THEN [calls |-> invoked, value |-> jac, iterations |-> <<>>]
    ELSE LET seeded == WriteDual(dual_numbers, i, Lit(1, 1))
         IN  The({[ColumnLoopNoReset(f, r.arg, i + 1,
                                     Append(invoked, seeded),
                                     WriteColumn(jac, i, r.value))
                     EXCEPT !.iterations =
                         <<Iteration(r.arg, Cells(jac, i))>> \o @] :
                     r \in {ApplyVectorFunction(f, seeded, 1, <<>>)}})

\* the loop over the columns of jac from column i on: seed, invoke f once,
\* harvest the dual of every output, reset the seed
RECURSIVE ColumnLoop(_, _, _, _, _)
ColumnLoop(f, dual_numbers, i, invoked, jac) ==
    IF i > Len(dual_numbers)
    THEN [calls |-> invoked, value |-> jac, iterations |-> <<>>]
    ELSE LET seeded == WriteDual(dual_numbers, i, Lit(1, 1))
         IN  The({[ColumnLoop(f, WriteDual(r.arg, i, Zero(1)), i + 1,
                              Append(invoked, seeded),
                              WriteColumn(jac, i, r.value))
                     EXCEPT !.iterations =
                         <<Iteration(WriteDual(r.arg, i, Zero(1)),
                                     Cells(jac, i))>> \o @] :
                     r \in {ApplyVectorFunction(f, seeded, 1, <<>>)}})

\* the single-function jacobian invoking f once per output and input
JacobianSinglePerOutput(FunctionSize, f, u) ==
    LET rows == RowLoop("eigen", f, u, 1, <<>>, <<>>)
    IN  [calls |-> rows.calls,
         value |-> IF Len(u) = 0 THEN Matrix(FunctionSize, 0)
                   ELSE rows.value,
         iterations |-> <<>>]

\* jacobian<FunctionSize>(F &&f, const Eigen::VectorXd &u)
JacobianSingle(FunctionSize, f, u) ==
    ColumnLoop(f, DualNumbers(u), 1, <<>>, Matrix(FunctionSize, Len(u)))

\* jacobian<FunctionSize>(F &&f, const Eigen::Vector<double, InputSize> &u)
JacobianFixed(FunctionSize, f, u) ==
    ColumnLoop(f, DualNumbers(u), 1, <<>>, Matrix(FunctionSize, Len(u)))

\* the doubles the caller puts into u
VectorVals == {Lit(1, 2), Lit(2, 1), Lit(-1, 1)}

\* the input vectors u
Vectors == UNION {[1..n -> VectorVals] : n \in 0..MaxLen}

\* the lists of functions the caller passes
FunctionLists == UNION {[1..m -> VectorFunctions] : m \in 0..MaxFuns}

\* the caller has chosen its functions and its input and has made no call
InitVector ==
    /\ obj = [o \in Objects |-> DualNumber0]
    /\ depth = 0
    /\ ret = NoRet
    /\ calls = <<>>
    /\ \E u \in Vectors, fs \in FunctionLists :
          last = [NoCall EXCEPT !.u = u, !.fs = fs]

\* a call of the engine: the invocations of the user functions it made and
\* what it returned
Engine(op, result, r) ==
    /\ last.op = "none"
    /\ calls' = result.calls
    /\ ret' = r
    /\ last' = [last EXCEPT !.op = op]

\* a call of jacobian<FunctionSize>: also what each iteration of its loop
\* left behind
EngineColumns(op, result) ==
    /\ last.op = "none"
    /\ calls' = result.calls
    /\ ret' = [NoRet EXCEPT !.mat = result.value]
    /\ last' = [last EXCEPT !.op = op, !.w = result.iterations]

\* evaluate(f, u), u a std::vector<double>
DoEvaluateVector ==
    /\ Len(last.fs) = 1
    /\ LET result == EvaluateVector(last.fs[1], last.u)
       IN  Engine("evaluate_vector", result,
                  [NoRet EXCEPT !.vec = result.value])
    /\ UNCHANGED <<obj, depth>>

\* evaluate(f, u), u an Eigen vector
DoEvaluateEigen ==
    /\ Len(last.fs) = 1
    /\ LET result == EvaluateEigen(last.fs[1], last.u)
       IN  Engine("evaluate_eigen", result,
                  [NoRet EXCEPT !.vec = result.value])
    /\ UNCHANGED <<obj, depth>>

\* gradient(f, u), u a std::vector<double>
DoGradientVector ==
    /\ Len(last.fs) = 1
    /\ LET result == GradientVector(last.fs[1], last.u)
       IN  Engine("gradient_vector", result,
                  [NoRet EXCEPT !.vec = result.value])
    /\ UNCHANGED <<obj, depth>>

\* gradient(f, u), u an Eigen vector
DoGradientEigen ==
    /\ Len(last.fs) = 1
    /\ LET result == GradientEigen(last.fs[1], last.u)
       IN  Engine("gradient_eigen", result,
                  [NoRet EXCEPT !.vec = result.value])
    /\ UNCHANGED <<obj, depth>>

\* jacobian(f, u), f a std::vector of functions, u a std::vector<double>
DoJacobianFunctions ==
    /\ LET result == JacobianFunctions(last.fs, last.u)
       IN  Engine("jacobian_functions", result,
                  [NoRet EXCEPT !.mat = result.value])
    /\ UNCHANGED <<obj, depth>>

\* jacobian(f, u), f a std::vector of functions, u an Eigen::VectorXd
DoJacobianFunctionsEigen ==
    /\ LET result == JacobianFunctionsEigen(last.fs, last.u)
       IN  Engine("jacobian_functions_eigen", result,
                  [NoRet EXCEPT !.mat = result.value])
    /\ UNCHANGED <<obj, depth>>

\* jacobian<FunctionSize>(f, u), u an Eigen::VectorXd, for the function f
\* whose outputs are the functions of the list
DoJacobianSingle ==
    /\ Len(last.fs) >= 1
    /\ LET result == JacobianSingle(Len(last.fs), last.fs, last.u)
       IN  EngineColumns("jacobian_single", result)
    /\ UNCHANGED <<obj, depth>>

\* jacobian<FunctionSize>(f, u), u an Eigen::Vector of fixed size
DoJacobianFixed ==
    /\ Len(last.fs) >= 1
    /\ LET result == JacobianFixed(Len(last.fs), last.fs, last.u)
       IN  EngineColumns("jacobian_fixed", result)
    /\ UNCHANGED <<obj, depth>>

NextVector ==
    \/ DoEvaluateVector
    \/ DoEvaluateEigen
    \/ DoGradientVector
    \/ DoGradientEigen
    \/ DoJacobianFunctions
    \/ DoJacobianFunctionsEigen
    \/ DoJacobianSingle
    \/ DoJacobianFixed

SpecVector == InitVector /\ [][NextVector]_vars

----------------------------------------------------------------------------
\* properties of gradient and jacobian (SpecVector)

GradientOps == {"gradient_vector", "gradient_eigen"}

FunctionsOps == {"jacobian_functions", "jacobian_functions_eigen"}

SingleOps == {"jacobian_single", "jacobian_fixed"}

One == Lit(1, 1)

\* C11: in gradient(f, u), for f that does not modify the vector it is
\* handed, the k-th invocation of f receives primal[j] = u[j] for every j,
\* dual[k] = 1 and dual[j] = 0 for j # k; no invocation sees two non-zero
\* duals.
C11_OneSeedPerInvocation ==
    (last.op \in GradientOps /\ last.fs[1] \in PureFunctions) =>
        /\ Len(calls) = Len(last.u)
        /\ \A k \in 1..Len(calls) :
              /\ Len(calls[k]) = Len(last.u)
              /\ \A j \in 1..Len(last.u) :
                    /\ calls[k][j].primal = last.u[j]
                    /\ calls[k][j].dual = IF j = k THEN One ELSE Zero(1)
              /\ Cardinality({j \in 1..Len(last.u) :
                                 ~IsZero(calls[k][j].dual)}) <= 1

\* gradient of the product at (2, 1/2): the second invocation received
\* ((2, 0), (1/2, 1))
C11_Witness ==
    /\ last.op = "gradient_vector"
    /\ last.fs = <<"product">>
    /\ last.u = <<Lit(2, 1), Lit(1, 2)>>
    /\ Len(calls) = 2
    /\ calls[2] = <<DualNumber2(Lit(2, 1), Zero(1)),
                    DualNumber2(Lit(1, 2), One)>>

\* C12: gradient(f, u) for u of length n invokes f exactly n times and
\* returns exactly n values; entry i is the dual component of the result of
\* the invocation seeded at input index i.
C12_GradientAligned ==
    last.op \in GradientOps =>
        /\ Len(calls) = Len(last.u)
        /\ Len(ret.vec) = Len(last.u)
        /\ \A i \in 1..Len(last.u) :
              /\ calls[i][i].dual = One
              /\ ret.vec[i] = ApplyVector(last.fs[1], calls[i]).value.dual

\* gradient of the product at (2, 1/2) returned (1/2, 2) after two
\* invocations
C12_Witness ==
    /\ last.op \in GradientOps
    /\ last.fs = <<"product">>
    /\ last.u = <<Lit(2, 1), Lit(1, 2)>>
    /\ Len(calls) = 2
    /\ ret.vec = <<Lit(1, 2), Lit(2, 1)>>

\* the vector built from u and seeded at index k
Seeded(u, k) ==
    [j \in 1..Len(u) |->
        [primal |-> u[j], dual |-> IF j = k THEN One ELSE Zero(1)]]

\* C13: within one gradient or jacobian call the input presented to the
\* k-th invocation of a function depends only on u and k, whatever an
\* earlier invocation wrote to the vector it was handed.
C13_SeedsIndependent ==
    last.op \in GradientOps \cup FunctionsOps \cup SingleOps =>
        \A i \in 1..Len(calls) :
            calls[i] = Seeded(last.u, ((i - 1) % Len(last.u)) + 1)

\* C14: jacobian(functions, u) for m functions and u of length n returns m
\* rows, row i equal to gradient(functions[i], u), and makes m * n
\* invocations: those of gradient(functions[0], u), then those of
\* gradient(functions[1], u), and so on.
C14_RowsAreGradients ==
    last.op \in FunctionsOps =>
        LET m == Len(last.fs)
            n == Len(last.u)
        IN  /\ Len(ret.mat) = m
            /\ Len(calls) = m * n
            /\ \A i \in 1..m :
                  LET row == IF last.op = "jacobian_functions"
                             THEN GradientVector(last.fs[i], last.u)
                             ELSE GradientEigen(last.fs[i], last.u)
                  IN  /\ ret.mat[i] = row.value
                      /\ Len(ret.mat[i]) = n
                      /\ SubSeq(calls, (i - 1) * n + 1, i * n) = row.calls

\* jacobian of (product, sum) at (2, 1/2) returned ((1/2, 2), (1, 1)) after
\* four invocations
C14_Witness ==
    /\ last.op = "jacobian_functions"
    /\ last.fs = <<"product", "sum">>
    /\ last.u = <<Lit(2, 1), Lit(1, 2)>>
    /\ Len(calls) = 4
    /\ ret.mat = <<<<Lit(1, 2), Lit(2, 1)>>, <<One, One>>>>

\* C15: jacobian<m>(f, u) for f with m outputs and u of length n invokes f
\* exactly n times whatever m is; entry (i, j) of the m x n matrix returned
\* is the dual of output i of the invocation seeded at input j.
C15_ColumnPerInvocation ==
    last.op \in SingleOps =>
        LET m == Len(last.fs)
            n == Len(last.u)
        IN  /\ Len(calls) = n
            /\ Len(ret.mat) = m
            /\ \A j \in 1..n :
                  /\ calls[j][j].dual = One
                  /\ \A i \in 1..m :
                        /\ Len(ret.mat[i]) = n
                        /\ ret.mat[i][j] =
                              ApplyVectorFunction(last.fs, calls[j], 1,
                                                  <<>>).value[i].dual

\* jacobian<2> of x -> (product, sum) at (2, 1/2) returned
\* ((1/2, 2), (1, 1)) after two invocations
C15_Witness ==
    /\ last.op = "jacobian_single"
    /\ last.fs = <<"product", "sum">>
    /\ last.u = <<Lit(2, 1), Lit(1, 2)>>
    /\ Len(calls) = 2
    /\ ret.mat = <<<<Lit(1, 2), Lit(2, 1)>>, <<One, One>>>>

\* every function of the list leaves its argument as it found it
AllPure(fs) == \A i \in 1..Len(fs) : fs[i] \in PureFunctions

----------------------------------------------------------------------------
\* <cmath>: the functions of the C library the catalogue calls.  Special
\* values (NaN, infinities, signed zeros, arguments outside the domain)
\* follow Annex F of the C standard.  std::pow with an integer exponent and
\* std::sqrt of a square are exact; the transcendental functions return the
\* value of a coarse table of the function, correct in sign and in class
\* (zero, finite, infinite, NaN).

RECURSIVE IntPow(_, _)
IntPow(base, e) == IF e = 0 THEN 1 ELSE base * IntPow(base, e - 1)

\* the largest r with r * r <= n, searched from r upwards
RECURSIVE ISqrt(_, _)
ISqrt(n, r) == IF (r + 1) * (r + 1) > n THEN r ELSE ISqrt(n, r + 1)

IsInteger(y) == IsFinite(y) /\ y.d = 1

IsOddInteger(y) == IsInteger(y) /\ y.n % 2 = 1

\* |x| < 1
MagBelowOne(x) == IsFinite(x) /\ x.n < x.d

\* v with the sign of x
WithSign(x, v) == IF x.s = -1 THEN FNeg(v) ELSE v

\* x <= y
FLe(x, y) == FLt(x, y) \/ FEq(x, y)

\* std::sqrt(x)
StdSqrt(x) ==
    IF IsNaN(x) THEN NaN
    ELSE IF IsZero(x) THEN x
    ELSE IF x.s = -1 THEN NaN
    ELSE IF IsInf(x) THEN x
    ELSE Round(1, ISqrt(x.n * x.d, 0), x.d)

\* std::pow(x, y), y an integer or a multiple of 1/2
StdPow(x, y) ==
    IF IsZero(y) THEN Lit(1, 1)
    ELSE IF x = Lit(1, 1) THEN Lit(1, 1)
    ELSE IF IsNaN(x) \/ IsNaN(y) THEN NaN
    ELSE IF IsInf(y)
         THEN IF IsFinite(x) /\ x.n = x.d THEN Lit(1, 1)
              ELSE IF MagBelowOne(x) = (y.s = 1) THEN Zero(1) ELSE Inf(1)
    ELSE LET sgn == IF x.s = -1 /\ IsOddInteger(y) THEN -1 ELSE 1
         IN  IF IsZero(x)
             THEN (IF y.s = -1 THEN Inf(sgn) ELSE Zero(sgn))
             ELSE IF IsInf(x)
             THEN (IF y.s = -1 THEN Zero(sgn) ELSE Inf(sgn))
             ELSE IF x.s = -1 /\ ~IsInteger(y) THEN NaN
             ELSE LET num == IntPow(IF y.s = 1 THEN x.n ELSE x.d, y.n)
                      den == IntPow(IF y.s = 1 THEN x.d ELSE x.n, y.n)
                  IN  IF y.d = 1 THEN Round(sgn, num, den)
                      ELSE Round(1, ISqrt(num * den, 0), den)

\* std::exp(x)
StdExp(x) ==
    IF IsNaN(x) THEN NaN
    ELSE IF IsInf(x) THEN (IF x.s = 1 THEN x ELSE Zero(1))
    ELSE IF IsZero(x) THEN Lit(1, 1)
    ELSE LET m == FAbs(x)
             v == IF FLe(m, Lit(1, 2)) THEN <<3, 2>>
                  ELSE IF FLe(m, Lit(1, 1)) THEN <<5, 2>>
                  ELSE IF FLe(m, Lit(2, 1)) THEN <<5, 1>>
                  ELSE <<14, 1>>
         IN  IF x.s = 1 THEN Lit(v[1], v[2]) ELSE Lit(v[2], v[1])

\* std::log(x)
StdLog(x) ==
    IF IsNaN(x) THEN NaN
    ELSE IF IsZero(x) THEN Inf(-1)
    ELSE IF x.s = -1 THEN NaN
    ELSE IF IsInf(x) THEN x
    ELSE IF x = Lit(1, 1) THEN Zero(1)
    ELSE LET big == IF MagBelowOne(x) THEN FDiv(Lit(1, 1), x) ELSE x
             v == IF FLt(big, Lit(3, 2)) THEN Lit(1, 3)
                  ELSE IF FLt(big, Lit(3, 1)) THEN Lit(2, 3)
                  ELSE IF FLt(big, Lit(6, 1)) THEN Lit(4, 3)
                  ELSE Lit(2, 1)
         IN  IF MagBelowOne(x) THEN FNeg(v) ELSE v

\* std::sin(x)
StdSin(x) ==
    IF IsNaN(x) \/ IsInf(x) THEN NaN
    ELSE IF IsZero(x) THEN x
    ELSE LET m == FAbs(x)
             v == IF FLe(m, Lit(1, 2)) THEN Lit(1, 2)
                  ELSE IF FLt(m, Lit(5, 2)) THEN Lit(1, 1)
                  ELSE IF FLt(m, Lit(22, 7)) THEN Lit(1, 2)
                  ELSE IF FLt(m, Lit(4, 1)) THEN Lit(-1, 2)
                  ELSE IF FLt(m, Lit(11, 2)) THEN Lit(-1, 1)
                  ELSE IF FLt(m, Lit(44, 7)) THEN Lit(-1, 2)
                  ELSE Lit(1, 2)
         IN  WithSign(x, v)

\* std::cos(x)
StdCos(x) ==
    IF IsNaN(x) \/ IsInf(x) THEN NaN
    ELSE LET m == FAbs(x)
         IN  IF FLt(m, Lit(1, 2)) THEN Lit(1, 1)
             ELSE IF FLt(m, Lit(11, 7)) THEN Lit(1, 2)
             ELSE IF FLt(m, Lit(5, 2)) THEN Lit(-1, 2)
             ELSE IF FLt(m, Lit(4, 1)) THEN Lit(-1, 1)
             ELSE IF FLt(m, Lit(33, 7)) THEN Lit(-1, 2)
             ELSE IF FLt(m, Lit(6, 1)) THEN Lit(1, 2)
             ELSE IF FLt(m, Lit(13, 2)) THEN Lit(1, 1)
             ELSE IF FLt(m, Lit(55, 7)) THEN Lit(1, 2)
             ELSE Lit(-1, 2)

\* std::tan(x)
StdTan(x) == FDiv(StdSin(x), StdCos(x))

\* std::asin(x)
StdAsin(x) ==
    IF IsNaN(x) THEN NaN
    ELSE IF IsZero(x) THEN x
    ELSE IF ~FLe(FAbs(x), Lit(1, 1)) THEN NaN
    ELSE WithSign(x, IF MagBelowOne(x) THEN Lit(1, 2) ELSE Lit(11, 7))

\* std::acos(x)
StdAcos(x) ==
    IF IsNaN(x) THEN NaN
    ELSE IF ~FLe(FAbs(x), Lit(1, 1)) THEN NaN
    ELSE IF x = Lit(1, 1) THEN Zero(1)
    ELSE IF IsZero(x) THEN Lit(11, 7)
    ELSE IF x.s = 1 THEN Lit(1, 1)
    ELSE IF MagBelowOne(x) THEN Lit(2, 1)
    ELSE Lit(22, 7)

\* std::atan(x)
StdAtan(x) ==
    IF IsNaN(x) THEN NaN
    ELSE IF IsZero(x) THEN x
    ELSE LET m == FAbs(x)
         IN  WithSign(x, IF IsInf(x) THEN Lit(11, 7)
                         ELSE IF FLe(m, Lit(1, 2)) THEN Lit(1, 2)
                         ELSE IF FLe(m, Lit(2, 1)) THEN Lit(1, 1)
                         ELSE Lit(3, 2))

\* std::sinh(x)
StdSinh(x) ==
    IF IsNaN(x) THEN NaN
    ELSE IF IsZero(x) \/ IsInf(x) THEN x
    ELSE FDiv(FSub(StdExp(x), StdExp(FNeg(x))), Lit(2, 1))

\* std::cosh(x)
StdCosh(x) ==
    IF IsNaN(x) THEN NaN
    ELSE IF IsInf(x) THEN Inf(1)
    ELSE FDiv(FAdd(StdExp(x), StdExp(FNeg(x))), Lit(2, 1))

\* std::tanh(x)
StdTanh(x) ==
    IF IsNaN(x) THEN NaN
    ELSE IF IsZero(x) THEN x
    ELSE IF IsInf(StdCosh(x)) THEN WithSign(x, Lit(1, 1))
    ELSE FDiv(StdSinh(x), StdCosh(x))

\* std::asinh(x)
StdAsinh(x) ==
    IF IsNaN(x) THEN NaN
    ELSE IF IsZero(x) \/ IsInf(x) THEN x
    ELSE LET m == FAbs(x)
         IN  WithSign(x, IF FLe(m, Lit(1, 2)) THEN Lit(1, 2)
                         ELSE IF FLe(m, Lit(2, 1)) THEN Lit(1, 1)
                         ELSE Lit(2, 1))

\* std::acosh(x)
StdAcosh(x) ==
    IF IsNaN(x) THEN NaN
    ELSE IF FLt(x, Lit(1, 1)) THEN NaN
    ELSE IF x = Lit(1, 1) THEN Zero(1)
    ELSE IF IsInf(x) THEN x
    ELSE IF FLe(x, Lit(2, 1)) THEN Lit(1, 1)
    ELSE Lit(2, 1)

\* std::atanh(x)
StdAtanh(x) ==
    IF IsNaN(x) THEN NaN
    ELSE IF IsZero(x) THEN x
    ELSE IF ~FLe(FAbs(x), Lit(1, 1)) THEN NaN
    ELSE WithSign(x, IF ~MagBelowOne(x) THEN Inf(1)
                     ELSE IF FLe(FAbs(x), Lit(1, 2)) THEN Lit(1, 2)
                     ELSE Lit(1, 1))

----------------------------------------------------------------------------
\* dual_number_ops: the catalogue of functions of a DualNumber.  As with the
\* operators, a function takes the store h and the name of its argument.

\* std::log(2.0)
Ln2 == StdLog(Lit(2, 1))

\* std::log(10.0); 10.0 itself lies above the largest modelled double
Ln10 == Lit(7, 3)

\* the store in which both operands hold the value num
Only(num) == Operands(num, num)

\* primal(num)
Primal(h, num) == GetPrimal(h, num)

\* real(num)
Real(h, num) == Primal(h, num)

\* dual(num)
Dual(h, num) == GetDual(h, num)

\* imag(num)
Imag(h, num) == Dual(h, num)

\* conj negating both components, as operator- does
ConjNegatesBoth(h, num) ==
    DualNumber2(FNeg(GetPrimal(h, num)), FNeg(GetDual(h, num)))

\* conj(num)
Conj(h, num) == DualNumber2(GetPrimal(h, num), FNeg(GetDual(h, num)))

\* abs2(num)
Abs2(h, num) == OpMul(h, num, num)

\* norm(num)
Norm(h, num) == OpMul(h, num, num)

\* abs with the subgradient 0 at primal 0
AbsZeroAtZero(h, num) ==
    DualNumber2(FAbs(GetPrimal(h, num)),
                IF IsZero(GetPrimal(h, num)) THEN Zero(1)
                ELSE FDiv(FMul(GetDual(h, num), GetPrimal(h, num)),
                          FAbs(GetPrimal(h, num))))

\* abs(num)
Abs(h, num) ==
    DualNumber2(FAbs(GetPrimal(h, num)),
                FDiv(FMul(GetDual(h, num), GetPrimal(h, num)),
                     FAbs(GetPrimal(h, num))))

\* pow without the factor exponent in the dual
PowNoFactor(h, num, exponent) ==
    DualNumber2(StdPow(GetPrimal(h, num), exponent),
                FMul(GetDual(h, num),
                     StdPow(GetPrimal(h, num), FSub(exponent, Lit(1, 1)))))

\* pow with the power of the primal not lowered by one in the dual
PowSamePower(h, num, exponent) ==
    DualNumber2(StdPow(GetPrimal(h, num), exponent),
                FMul(FMul(exponent, GetDual(h, num)),
                     StdPow(GetPrimal(h, num), exponent)))

\* pow(num, exponent), exponent a double
Pow(h, num, exponent) ==
    DualNumber2(StdPow(GetPrimal(h, num), exponent),
                FMul(FMul(exponent, GetDual(h, num)),
                     StdPow(GetPrimal(h, num), FSub(exponent, Lit(1, 1)))))

\* inverse returning the conjugate of the reciprocal
InverseConj(h, num) ==
    LET r == Pow(h, num, Lit(-1, 1))
    IN  DualNumber2(r.primal, FNeg(r.dual))

\* inverse(num)
Inverse(h, num) == Pow(h, num, Lit(-1, 1))

\* pow with a DualNumber exponent whose dual is not differentiated
PowDualNoLog(h, num, exponent) ==
    LET power == StdPow(GetPrimal(h, num), GetPrimal(h, exponent))
    IN  DualNumber2(power,
                    FMul(power,
                         FDiv(FMul(GetDual(h, num), GetPrimal(h, exponent)),
                              GetPrimal(h, num))))

\* pow(num, exponent), exponent a DualNumber
PowDual(h, num, exponent) ==
    LET power == StdPow(GetPrimal(h, num), GetPrimal(h, exponent))
    IN  DualNumber2(power,
                    FMul(power,
                         FAdd(FMul(GetDual(h, exponent),
                                   StdLog(GetPrimal(h, num))),
                              FDiv(FMul(GetDual(h, num),
                                        GetPrimal(h, exponent)),
                                   GetPrimal(h, num)))))

\* sqrt(num)
Sqrt(h, num) == Pow(h, num, Lit(1, 2))

\* exp(num)
Exp(h, num) ==
    DualNumber2(StdExp(GetPrimal(h, num)),
                FMul(GetDual(h, num), StdExp(GetPrimal(h, num))))

\* exp2(num)
Exp2(h, num) == Exp(Only(OpScalarMul(h, Ln2, num)), "a")

\* log with the dual mixed into the primal
LogOfSum(h, num) ==
    DualNumber2(StdLog(FAdd(GetPrimal(h, num), GetDual(h, num))),
                FDiv(GetDual(h, num), GetPrimal(h, num)))

\* log(num)
Log(h, num) ==
    DualNumber2(StdLog(GetPrimal(h, num)),
                FDiv(GetDual(h, num), GetPrimal(h, num)))

\* log2(num)
Log2(h, num) == OpDivScalar(Only(Log(h, num)), "a", Ln2)

\* log10(num)
Log10(h, num) == OpDivScalar(Only(Log(h, num)), "a", Ln10)

\* log(num, base)
LogBase(h, num, base) == OpDivScalar(Only(Log(h, num)), "a", StdLog(base))

\* sin(num)
Sin(h, num) ==
    DualNumber2(StdSin(GetPrimal(h, num)),
                FMul(StdCos(GetPrimal(h, num)), GetDual(h, num)))

\* cos(num)
Cos(h, num) ==
    DualNumber2(StdCos(GetPrimal(h, num)),
                FMul(FNeg(StdSin(GetPrimal(h, num))), GetDual(h, num)))

\* tan(num)
Tan(h, num) ==
    LET cos_primal == StdCos(GetPrimal(h, num))
    IN  DualNumber2(StdTan(GetPrimal(h, num)),
                    FDiv(GetDual(h, num), FMul(cos_primal, cos_primal)))

\* 1.0 - num.primal() * num.primal()
OneMinusSquare(h, num) ==
    FSub(Lit(1, 1), FMul(GetPrimal(h, num), GetPrimal(h, num)))

\* asin(num)
Asin(h, num) ==
    DualNumber2(StdAsin(GetPrimal(h, num)),
                FDiv(GetDual(h, num), StdSqrt(OneMinusSquare(h, num))))

\* acos(num)
Acos(h, num) ==
    DualNumber2(StdAcos(GetPrimal(h, num)),
                FDiv(FNeg(GetDual(h, num)), StdSqrt(OneMinusSquare(h, num))))

\* atan(num)
Atan(h, num) ==
    DualNumber2(StdAtan(GetPrimal(h, num)),
                FDiv(GetDual(h, num),
                     FAdd(Lit(1, 1),
                          FMul(GetPrimal(h, num), GetPrimal(h, num)))))

\* sinh(num)
Sinh(h, num) ==
    DualNumber2(StdSinh(GetPrimal(h, num)),
                FMul(StdCosh(GetPrimal(h, num)), GetDual(h, num)))

\* cosh(num)
Cosh(h, num) ==
    DualNumber2(StdCosh(GetPrimal(h, num)),
                FMul(StdSinh(GetPrimal(h, num)), GetDual(h, num)))

\* tanh(num)
Tanh(h, num) ==
    LET cosh_primal == StdCosh(GetPrimal(h, num))
    IN  DualNumber2(StdTanh(GetPrimal(h, num)),
                    FDiv(GetDual(h, num), FMul(cosh_primal, cosh_primal)))

\* asinh(num)
Asinh(h, num) ==
    DualNumber2(StdAsinh(GetPrimal(h, num)),
                FDiv(GetDual(h, num),
                     StdSqrt(FAdd(FMul(GetPrimal(h, num), GetPrimal(h, num)),
                                  Lit(1, 1)))))

\* acosh(num)
Acosh(h, num) ==
    DualNumber2(StdAcosh(GetPrimal(h, num)),
                FDiv(GetDual(h, num),
                     StdSqrt(FSub(FMul(GetPrimal(h, num), GetPrimal(h, num)),
                                  Lit(1, 1)))))

\* atanh(num)
Atanh(h, num) ==
    DualNumber2(StdAtanh(GetPrimal(h, num)),
                FDiv(GetDual(h, num), OneMinusSquare(h, num)))

\* scalar / num returning inverse(num) without the factor scalar
OpScalarDivUnscaled(h, scalar, num) == Inverse(ByValue(h, num), "t")

\* operator/(const double scalar, DualNumber num)
OpScalarDiv(h, scalar, num) ==
    OpScalarMul(Only(Inverse(ByValue(h, num), "t")), scalar, "a")

----------------------------------------------------------------------------
\* the caller of the catalogue: it holds two DualNumbers a and b and makes
\* one call, of a function of the catalogue or of an operator

\* primal components of the caller's DualNumbers
FunctionPrimals ==
    {Zero(1), Zero(-1), Lit(1, 4), Lit(1, 2), Lit(1, 1), Lit(3, 2),
     Lit(2, 1), Lit(4, 1), Lit(-1, 1), Lit(-2, 1), Inf(1), NaN}

\* dual components of the caller's DualNumbers
FunctionDuals == {Zero(1), Lit(1, 1), Lit(-1, 2), Lit(4, 1)}

FunctionVals ==
    {DualNumber2(primal, dual) :
        primal \in FunctionPrimals, dual \in FunctionDuals}

\* the scalar exponents the caller raises to
Exponents ==
    {Lit(-2, 1), Lit(-1, 1), Zero(1), Lit(1, 2), Lit(1, 1), Lit(2, 1),
     Lit(3, 1)}

\* the bases of log(num, base)
Bases == {Lit(1, 2), Lit(1, 1), Lit(2, 1)}

\* the scalars the caller divides by a DualNumber
Numerators == Vals \cup {Lit(1, 1)}

InitFunctions ==
    /\ obj \in [Objects -> FunctionVals]
    /\ depth = 0
    /\ ret = NoRet
    /\ last = NoCall
    /\ calls = <<>>

\* the one call of a function of the catalogue on a (and b or n)
Function(op, n, r) ==
    /\ last.op = "none"
    /\ ret' = r
    /\ last' = [Call(op, "a", "b") EXCEPT !.n = n]
    /\ UNCHANGED calls

\* primal(a)
DoPrimal ==
    /\ Function("primal", Zero(1), RetVal(Primal(Heap, "a")))
    /\ UNCHANGED <<obj, depth>>

\* real(a)
DoReal ==
    /\ Function("real", Zero(1), RetVal(Real(Heap, "a")))
    /\ UNCHANGED <<obj, depth>>

\* dual(a)
DoDual ==
    /\ Function("dual", Zero(1), RetVal(Dual(Heap, "a")))
    /\ UNCHANGED <<obj, depth>>

\* imag(a)
DoImag ==
    /\ Function("imag", Zero(1), RetVal(Imag(Heap, "a")))
    /\ UNCHANGED <<obj, depth>>

\* conj(a)
DoConj ==
    /\ Function("conj", Zero(1), RetNum(Conj(Heap, "a")))
    /\ UNCHANGED <<obj, depth>>

\* abs2(a)
DoAbs2 ==
    /\ Function("abs2", Zero(1), RetNum(Abs2(Heap, "a")))
    /\ UNCHANGED <<obj, depth>>

\* norm(a)
DoNorm ==
    /\ Function("norm", Zero(1), RetNum(Norm(Heap, "a")))
    /\ UNCHANGED <<obj, depth>>

\* abs(a)
DoAbs ==
    /\ Function("abs", Zero(1), RetNum(Abs(Heap, "a")))
    /\ UNCHANGED <<obj, depth>>

\* inverse(a)
DoInverse ==
    /\ Function("inverse", Zero(1), RetNum(Inverse(Heap, "a")))
    /\ UNCHANGED <<obj, depth>>

\* sqrt(a)
DoSqrt ==
    /\ Function("sqrt", Zero(1), RetNum(Sqrt(Heap, "a")))
    /\ UNCHANGED <<obj, depth>>

\* exp(a)
DoExp ==
    /\ Function("exp", Zero(1), RetNum(Exp(Heap, "a")))
    /\ UNCHANGED <<obj, depth>>

\* exp2(a)
DoExp2 ==
    /\ Function("exp2", Zero(1), RetNum(Exp2(Heap, "a")))
    /\ UNCHANGED <<obj, depth>>

\* log(a)
DoLog ==
    /\ Function("log", Zero(1), RetNum(Log(Heap, "a")))
    /\ UNCHANGED <<obj, depth>>

\* log2(a)
DoLog2 ==
    /\ Function("log2", Zero(1), RetNum(Log2(Heap, "a")))
    /\ UNCHANGED <<obj, depth>>

\* log10(a)
DoLog10 ==
    /\ Function("log10", Zero(1), RetNum(Log10(Heap, "a")))
    /\ UNCHANGED <<obj, depth>>

\* sin(a)
DoSin ==
    /\ Function("sin", Zero(1), RetNum(Sin(Heap, "a")))
    /\ UNCHANGED <<obj, depth>>

\* cos(a)
DoCos ==
    /\ Function("cos", Zero(1), RetNum(Cos(Heap, "a")))
    /\ UNCHANGED <<obj, depth>>

\* tan(a)
DoTan ==
    /\ Function("tan", Zero(1), RetNum(Tan(Heap, "a")))
    /\ UNCHANGED <<obj, depth>>

\* asin(a)
DoAsin ==
    /\ Function("asin", Zero(1), RetNum(Asin(Heap, "a")))
    /\ UNCHANGED <<obj, depth>>

\* acos(a)
DoAcos ==
    /\ Function("acos", Zero(1), RetNum(Acos(Heap, "a")))
    /\ UNCHANGED <<obj, depth>>

\* atan(a)
DoAtan ==
    /\ Function("atan", Zero(1), RetNum(Atan(Heap, "a")))
    /\ UNCHANGED <<obj, depth>>

\* sinh(a)
DoSinh ==
    /\ Function("sinh", Zero(1), RetNum(Sinh(Heap, "a")))
    /\ UNCHANGED <<obj, depth>>

\* cosh(a)
DoCosh ==
    /\ Function("cosh", Zero(1), RetNum(Cosh(Heap, "a")))
    /\ UNCHANGED <<obj, depth>>

\* tanh(a)
DoTanh ==
    /\ Function("tanh", Zero(1), RetNum(Tanh(Heap, "a")))
    /\ UNCHANGED <<obj, depth>>

\* asinh(a)
DoAsinh ==
    /\ Function("asinh", Zero(1), RetNum(Asinh(Heap, "a")))
    /\ UNCHANGED <<obj, depth>>

\* acosh(a)
DoAcosh ==
    /\ Function("acosh", Zero(1), RetNum(Acosh(Heap, "a")))
    /\ UNCHANGED <<obj, depth>>

\* atanh(a)
DoAtanh ==
    /\ Function("atanh", Zero(1), RetNum(Atanh(Heap, "a")))
    /\ UNCHANGED <<obj, depth>>

\* pow(a, exponent)
DoPow ==
    \E exponent \in Exponents :
        /\ Function("pow", exponent, RetNum(Pow(Heap, "a", exponent)))
        /\ UNCHANGED <<obj, depth>>

\* pow(a, b)
DoPowDual ==
    /\ Function("pow_dual", Zero(1), RetNum(PowDual(Heap, "a", "b")))
    /\ UNCHANGED <<obj, depth>>

\* log(a, base)
DoLogBase ==
    \E base \in Bases :
        /\ Function("log_base", base, RetNum(LogBase(Heap, "a", base)))
        /\ UNCHANGED <<obj, depth>>

\* scalar / a
DoScalarDiv ==
    \E scalar \in Numerators :
        /\ Function("scalar_div", scalar,
                    RetNum(OpScalarDiv(Heap, scalar, "a")))
        /\ UNCHANGED <<obj, depth>>

NextFunctions ==
    \/ DoPrimal
    \/ DoReal
    \/ DoDual
    \/ DoImag
    \/ DoConj
    \/ DoAbs2
    \/ DoNorm
    \/ DoAbs
    \/ DoInverse
    \/ DoSqrt
    \/ DoExp
    \/ DoExp2
    \/ DoLog
    \/ DoLog2
    \/ DoLog10
    \/ DoSin
    \/ DoCos
    \/ DoTan
    \/ DoAsin
    \/ DoAcos
    \/ DoAtan
    \/ DoSinh
    \/ DoCosh
    \/ DoTanh
    \/ DoAsinh
    \/ DoAcosh
    \/ DoAtanh
    \/ DoPow
    \/ DoPowDual
    \/ DoLogBase
    \/ DoScalarDiv
    \/ DoNegFree
    \/ DoAdd
    \/ DoSub
    \/ DoMul
    \/ DoDiv
    \/ DoAddScalar
    \/ DoScalarAdd
    \/ DoSubScalar
    \/ DoScalarSub
    \/ DoMulScalar
    \/ DoScalarMul
    \/ DoDivScalar

SpecFunctions == InitFunctions /\ [][NextFunctions]_vars

----------------------------------------------------------------------------
\* properties of the catalogue and of the operators (SpecFunctions)

\* C17: for a with a.primal # 0, inverse(a) and pow(a, -1) return the same
\* pair, (1/p, -d/p^2).
C17_InverseIsPowMinusOne ==
    ((last.op = "inverse" \/ (last.op = "pow" /\ last.n = Lit(-1, 1)))
      /\ ~IsZero(last.x.primal)) =>
        LET p == last.x.primal
            d == last.x.dual
        IN  /\ ret.num.primal = FDiv(Lit(1, 1), p)
            /\ ret.num.dual = FDiv(FNeg(d), FMul(p, p))

\* inverse((2, 1)) returned (1/2, -1/4)
C17_Witness ==
    /\ last.op = "inverse"
    /\ last.x = DualNumber2(Lit(2, 1), Lit(1, 1))
    /\ ret.num = DualNumber2(Lit(1, 2), Lit(-1, 4))

\* the operation op in plain arithmetic on doubles: p and q are the primals
\* of the operands and n is the scalar operand
Plain(op, p, q, n) ==
    CASE op = "neg_free" -> FNeg(p)
      [] op = "add" -> FAdd(p, q)
      [] op = "sub" -> FSub(p, q)
      [] op = "mul" -> FMul(p, q)
      [] op = "div" -> FDiv(p, q)
      [] op = "add_scalar" -> FAdd(p, n)
      [] op = "scalar_add" -> FAdd(n, p)
      [] op = "sub_scalar" -> FSub(p, n)
      [] op = "scalar_sub" -> FSub(n, p)
      [] op = "mul_scalar" -> FMul(p, n)
      [] op = "scalar_mul" -> FMul(n, p)
      [] op = "div_scalar" -> FDiv(p, n)
      [] op = "scalar_div" -> FDiv(n, p)
      [] op = "primal" -> p
      [] op = "real" -> p
      [] op = "conj" -> p
      [] op = "abs2" -> FMul(p, p)
      [] op = "norm" -> FMul(p, p)
      [] op = "abs" -> FAbs(p)
      [] op = "inverse" -> FDiv(Lit(1, 1), p)
      [] op = "sqrt" -> StdPow(p, Lit(1, 2))
      [] op = "exp" -> StdExp(p)
      [] op = "exp2" -> StdExp(FMul(Ln2, p))
      [] op = "log" -> StdLog(p)
      [] op = "log2" -> FDiv(StdLog(p), Ln2)
      [] op = "log10" -> FDiv(StdLog(p), Ln10)
      [] op = "log_base" -> FDiv(StdLog(p), StdLog(n))
      [] op = "sin" -> StdSin(p)
      [] op = "cos" -> StdCos(p)
      [] op = "tan" -> StdTan(p)
      [] op = "asin" -> StdAsin(p)
      [] op = "acos" -> StdAcos(p)
      [] op = "atan" -> StdAtan(p)
      [] op = "sinh" -> StdSinh(p)
      [] op = "cosh" -> StdCosh(p)
      [] op = "tanh" -> StdTanh(p)
      [] op = "asinh" -> StdAsinh(p)
      [] op = "acosh" -> StdAcosh(p)
      [] op = "atanh" -> StdAtanh(p)
      [] op = "pow" -> StdPow(p, n)
      [] op = "pow_dual" -> StdPow(p, q)

\* the operations that return a DualNumber or its primal component
PrimalOps ==
    {"neg_free", "add", "sub", "mul", "div", "add_scalar", "scalar_add",
     "sub_scalar", "scalar_sub", "mul_scalar", "scalar_mul", "div_scalar",
     "scalar_div", "conj", "abs2", "norm", "abs", "inverse", "sqrt", "exp",
     "exp2", "log", "log2", "log10", "log_base", "sin", "cos", "tan", "asin",
     "acos", "atan", "sinh", "cosh", "tanh", "asinh", "acosh", "atanh", "pow",
     "pow_dual", "primal", "real"}

\* C18: for every operator and every function of the catalogue the primal
\* of the result is the operation computed in plain arithmetic on the
\* primals of the operands; the duals of the operands do not enter it.
C18_PrimalFromPrimals ==
    last.op \in PrimalOps =>
        (IF last.op \in {"primal", "real"} THEN ret.val ELSE ret.num.primal)
            = Plain(last.op, last.x.primal, last.y.primal, last.n)

\* log((2, 1)) returned the primal log(2) and a * b returned the primal
\* of a times the primal of b, with duals that are not zero
C18_Witness ==
    /\ last.op \in {"log", "mul"}
    /\ last.x.primal = Lit(2, 1)
    /\ last.x.dual = Lit(1, 1)
    /\ last.y.dual = Lit(-1, 2)
    /\ ret.num.primal \in {StdLog(Lit(2, 1)), FMul(Lit(2, 1), last.y.primal)}
    /\ ~IsZero(ret.num.dual)

\* x is a double: a NaN, an infinity or a finite value
IsDouble(x) ==
    /\ x.k \in {"nan", "inf", "fin"}
    /\ x.s \in {1, -1}
    /\ x.k = "fin" => (x.n >= 0 /\ x.d > 0)

\* r is a DualNumber: both components are doubles
IsDualNumber(r) == IsDouble(r.primal) /\ IsDouble(r.dual)

\* every operator and every function of the catalogue has a value on the
\* caller's a and b
Callable ==
    /\ IsDouble(Primal(Heap, "a"))
    /\ IsDouble(Real(Heap, "a"))
    /\ IsDouble(Dual(Heap, "a"))
    /\ IsDouble(Imag(Heap, "a"))
    /\ IsDualNumber(Conj(Heap, "a"))
    /\ IsDualNumber(Abs2(Heap, "a"))
    /\ IsDualNumber(Norm(Heap, "a"))
    /\ IsDualNumber(Abs(Heap, "a"))
    /\ IsDualNumber(Inverse(Heap, "a"))
    /\ IsDualNumber(Sqrt(Heap, "a"))
    /\ IsDualNumber(Exp(Heap, "a"))
    /\ IsDualNumber(Exp2(Heap, "a"))
    /\ IsDualNumber(Log(Heap, "a"))
    /\ IsDualNumber(Log2(Heap, "a"))
    /\ IsDualNumber(Log10(Heap, "a"))
    /\ IsDualNumber(Sin(Heap, "a"))
    /\ IsDualNumber(Cos(Heap, "a"))
    /\ IsDualNumber(Tan(Heap, "a"))
    /\ IsDualNumber(Asin(Heap, "a"))
    /\ IsDualNumber(Acos(Heap, "a"))
    /\ IsDualNumber(Atan(Heap, "a"))
    /\ IsDualNumber(Sinh(Heap, "a"))
    /\ IsDualNumber(Cosh(Heap, "a"))
    /\ IsDualNumber(Tanh(Heap, "a"))
    /\ IsDualNumber(Asinh(Heap, "a"))
    /\ IsDualNumber(Acosh(Heap, "a"))
    /\ IsDualNumber(Atanh(Heap, "a"))
    /\ IsDualNumber(PowDual(Heap, "a", "b"))
    /\ IsDualNumber(OpNegFree(Heap, "a"))
    /\ \A other \in Objects : IsDualNumber(OpAdd(Heap, "a", other))
    /\ \A other \in Objects : IsDualNumber(OpSub(Heap, "a", other))
    /\ \A other \in Objects : IsDualNumber(OpMul(Heap, "a", other))
    /\ \A other \in Objects : IsDualNumber(OpDiv(Heap, "a", other))
    /\ \A exponent \in Exponents : IsDualNumber(Pow(Heap, "a", exponent))
    /\ \A base \in Bases : IsDualNumber(LogBase(Heap, "a", base))
    /\ \A n \in Vals :
          /\ IsDualNumber(OpAddScalar(Heap, "a", n))
          /\ IsDualNumber(OpScalarAdd(Heap, n, "a"))
          /\ IsDualNumber(OpSubScalar(Heap, "a", n))
          /\ IsDualNumber(OpScalarSub(Heap, n, "a"))
          /\ IsDualNumber(OpMulScalar(Heap, "a", n))
          /\ IsDualNumber(OpScalarMul(Heap, n, "a"))
          /\ IsDualNumber(OpDivScalar(Heap, "a", n))
          /\ IsDualNumber(OpScalarDiv(Heap, n, "a"))

\* C19: every operator and every function of the catalogue can be called on
\* every input and returns a DualNumber whose components are doubles (NaN
\* and infinities included); a / b with b.primal = 0 returns a primal and a
\* dual that are infinite or NaN, log of a primal that is not positive
\* returns the primal NaN or -Inf, and asin, acos, acosh and atanh outside
\* their domain return the primal NaN.
C19_Total ==
    /\ last.op = "none" => Callable
    /\ last.op # "none" =>
          /\ IsDouble(ret.val)
          /\ IsDouble(ret.num.primal)
          /\ IsDouble(ret.num.dual)
    /\ (last.op = "div" /\ IsZero(last.y.primal)) =>
          /\ ~IsFinite(ret.num.primal)
          /\ ~IsFinite(ret.num.dual)
    /\ (last.op = "log" /\ ~FLt(Zero(1), last.x.primal)) =>
          (IsNaN(ret.num.primal) \/ ret.num.primal = Inf(-1))
    /\ (last.op \in {"asin", "acos", "atanh"}
         /\ FLt(Lit(1, 1), FAbs(last.x.primal))) => IsNaN(ret.num.primal)
    /\ (last.op = "acosh" /\ FLt(last.x.primal, Lit(1, 1))) =>
          IsNaN(ret.num.primal)

\* (2, 1) / (0, 1) returned (+Inf, -Inf)
C19_Witness ==
    /\ last.op = "div"
    /\ last.x = DualNumber2(Lit(2, 1), Lit(1, 1))
    /\ last.y = DualNumber2(Zero(1), Lit(1, 1))
    /\ ret.num = DualNumber2(Inf(1), Inf(-1))

\* u * u * .. * u, e factors
RECURSIVE Power(_, _)
Power(u, e) == IF e = 0 THEN Lit(1, 1) ELSE FMul(u, Power(u, e - 1))

\* C20: pow(x, e) with a scalar e returns the primal x.primal^e and the dual
\* e * x.dual * x.primal^(e - 1); for an integer n >= 1, u # 0 and the seed
\* x = (u, 1) the dual is n * u^(n - 1).
C20_PowerRule ==
    last.op = "pow" =>
        LET p == last.x.primal
            d == last.x.dual
            e == last.n
        IN  /\ ret.num.primal = StdPow(p, e)
            /\ ret.num.dual = FMul(FMul(e, d), StdPow(p, FSub(e, Lit(1, 1))))
            /\ (IsInteger(e) /\ e.s = 1 /\ e.n >= 1 /\ IsFinite(p)
                 /\ ~IsZero(p) /\ d = Lit(1, 1)) =>
                  /\ ret.num.primal = Power(p, e.n)
                  /\ ret.num.dual = FMul(e, Power(p, e.n - 1))

\* pow((3/2, 1), 3) returned (27/8, 27/4)
C20_Witness ==
    /\ last.op = "pow"
    /\ last.n = Lit(3, 1)
    /\ last.x = DualNumber2(Lit(3, 2), Lit(1, 1))
    /\ ret.num = DualNumber2(Lit(27, 8), Lit(27, 4))

----------------------------------------------------------------------------
\* properties of the functions of the catalogue (SpecFunctions), continued

\* abs(x) as first stated: the dual is x.dual for every x.primal > 0 and
\* -x.dual for every x.primal < 0, and NaN at x.primal = 0
C21_AbsSign ==
    last.op = "abs" =>
        LET p == last.x.primal
            d == last.x.dual
        IN  /\ ret.num.primal = FAbs(p)
            /\ ret.num.dual = FDiv(FMul(d, p), FAbs(p))
            /\ FLt(Zero(1), p) => ret.num.dual = d
            /\ FLt(p, Zero(1)) => ret.num.dual = FNeg(d)
            /\ IsZero(p) => (IsNaN(ret.num.dual) /\ IsZero(ret.num.primal))

\* C21: abs(x) returns the primal |x.primal| and the dual
\* (x.dual * x.primal) / |x.primal|.  For a finite x.primal # 0 whose product
\* with x.dual neither overflows nor underflows the dual is x.dual
\* (x.primal > 0) or -x.dual (x.primal < 0); at x.primal = 0 and at an
\* infinite x.primal the dual is NaN for every x.dual, and at x.primal = 0
\* the primal is 0.
C21_AbsRule ==
    last.op = "abs" =>
        LET p == last.x.primal
            d == last.x.dual
            product == FMul(d, p)
        IN  /\ ret.num.primal = FAbs(p)
            /\ ret.num.dual = FDiv(product, FAbs(p))
            /\ (IsFinite(p) /\ ~IsZero(p) /\ IsFinite(product)
                 /\ (IsZero(product) => IsZero(d))) =>
                  ret.num.dual = IF p.s = 1 THEN d ELSE FNeg(d)
            /\ (IsZero(p) \/ IsInf(p)) => IsNaN(ret.num.dual)
            /\ IsZero(p) => IsZero(ret.num.primal)

\* abs((0, 1)) returned (0, NaN)
C21_Witness ==
    /\ last.op = "abs"
    /\ last.x = DualNumber2(Zero(1), Lit(1, 1))
    /\ ret.num = DualNumber2(Zero(1), NaN)

\* the functions of the catalogue that read one DualNumber and take it
\* apart or pair it with itself
Accessors ==
    {"primal", "real", "dual", "imag", "conj", "abs2", "norm"}

\* C22: conj(a) returns (a.primal, -a.dual); norm(a) and abs2(a) both return
\* a * a = (p * p, 2 * (p * d)); real(a) and primal(a) return a.primal,
\* imag(a) and dual(a) return a.dual; a is as it was after each of them.
C22_Accessors ==
    last.op \in Accessors =>
        LET p == last.x.primal
            d == last.x.dual
        IN  /\ obj["a"] = last.x
            /\ last.op = "conj" =>
                  ret.num = [primal |-> p, dual |-> FNeg(d)]
            /\ last.op \in {"abs2", "norm"} =>
                  /\ ret.num = OpMul(Operands(last.x, last.x), "a", "b")
                  /\ ret.num.primal = FMul(p, p)
                  /\ ret.num.dual = FMul(Lit(2, 1), FMul(p, d))
            /\ last.op \in {"primal", "real"} => ret.val = p
            /\ last.op \in {"dual", "imag"} => ret.val = d

\* norm((3/2, 1)) returned (9/4, 3) and left a = (3/2, 1)
C22_Witness ==
    /\ last.op = "norm"
    /\ last.x = DualNumber2(Lit(3, 2), Lit(1, 1))
    /\ ret.num = DualNumber2(Lit(9, 4), Lit(3, 1))
    /\ obj["a"] = DualNumber2(Lit(3, 2), Lit(1, 1))

\* the same double up to the sign of a zero
SameDouble(x, y) == x = y \/ (IsZero(x) /\ IsZero(y))

\* the same (primal, dual) pair
SameValue(u, v) ==
    SameDouble(u.primal, v.primal) /\ SameDouble(u.dual, v.dual)

\* x is an exact product or quotient: finite, and zero only if exact is
\* (exact tells whether the true value is allowed to be zero)
Exact(x, exact) == IsFinite(x) /\ (IsZero(x) => exact)

\* DualNumber(n, 0) / x by operator/(DualNumber, const DualNumber &)
Quotient(n, x) == OpDiv(Operands(DualNumber2(n, Zero(1)), x), "a", "b")

\* n / a as first stated: for every finite n and every a with finite
\* components and a.primal # 0 it is the pair DualNumber(n, 0) / a returns,
\* (n/p, -n*d/p^2)
C23_ScalarOverDualIsQuotient ==
    (/\ last.op = "scalar_div"
     /\ FiniteOperands
     /\ ~IsZero(last.x.primal)) =>
        LET n == last.n
            p == last.x.primal
            d == last.x.dual
        IN  /\ SameValue(ret.num, Quotient(n, last.x))
            /\ SameValue(ret.num,
                         DualNumber2(FDiv(n, p),
                                     FDiv(FNeg(FMul(n, d)), FMul(p, p))))

\* C23: n / a returns n * pow(a, -1), the pair
\* (n * p^-1, n * (-1 * d * p^-2)); for finite n, p # 0 and d, when none of
\* p * p, n * d, d * p^-2, n / p and n * d / p^2 overflows or underflows,
\* that is the pair (n/p, -n*d/p^2) that DualNumber(n, 0) / a returns; and
\* 1.0 / a returns the pair inverse(a) returns.
C23_ScalarOverDual ==
    last.op = "scalar_div" =>
        LET n == last.n
            p == last.x.primal
            d == last.x.dual
            minus_one == Lit(-1, 1)
            square == FMul(p, p)
            quotient == FDiv(FNeg(FMul(n, d)), square)
        IN  /\ ret.num.primal = FMul(n, StdPow(p, minus_one))
            /\ ret.num.dual =
                  FMul(n, FMul(FMul(minus_one, d), StdPow(p, Lit(-2, 1))))
            /\ n = Lit(1, 1) => ret.num = Inverse(Operands(last.x, last.x), "a")
            /\ (/\ FiniteOperands
                /\ Exact(square, FALSE)
                /\ Exact(FMul(n, d), IsZero(n) \/ IsZero(d))
                /\ Exact(FMul(d, StdPow(p, Lit(-2, 1))), IsZero(d))
                /\ Exact(FDiv(n, p), IsZero(n))
                /\ Exact(quotient, IsZero(n) \/ IsZero(d))) =>
                  /\ SameValue(ret.num, Quotient(n, last.x))
                  /\ SameValue(ret.num, DualNumber2(FDiv(n, p), quotient))

\* 2 / (2, 1) returned (1, -1/2), as DualNumber(2, 0) / (2, 1) does
C23_Witness ==
    /\ last.op = "scalar_div"
    /\ last.n = Lit(2, 1)
    /\ last.x = DualNumber2(Lit(2, 1), Lit(1, 1))
    /\ ret.num = DualNumber2(Lit(1, 1), Lit(-1, 2))
    /\ ret.num = Quotient(last.n, last.x)

----------------------------------------------------------------------------
\* evaluate of the polynomials of the tests: sums and products of powers

\* largest exponent of a power the caller writes
MaxExponent == 3

\* the user functions, each capturing two exponents a and b
PowerFunctions == {"pow_times_pow", "pow_plus_pow", "pow_of_sum"}

\* f(num) for the user function f written with pow, operator* and operator+
ApplyPowers(f, a, b, num) ==
    LET h == Operands(num, num)
        left == Pow(h, "a", Lit(a, 1))
        right == Pow(h, "a", Lit(b, 1))
    IN  CASE f = "pow_times_pow" -> OpMul(Operands(left, right), "a", "b")
          [] f = "pow_plus_pow" -> OpAdd(Operands(left, right), "a", "b")
          [] f = "pow_of_sum" -> Pow(h, "a", Lit(a + b, 1))

\* evaluate(F &&f, double u) for f capturing a and b
EvaluatePowers(f, a, b, u) ==
    LET arg == DualNumber2(u, Lit(1, 1))
    IN  [calls |-> <<arg>>, value |-> ApplyPowers(f, a, b, arg)]

\* the points the polynomials are evaluated at
PowerPoints ==
    {Lit(0, 1), Lit(1, 2), Lit(1, 1), Lit(3, 2), Lit(2, 1), Lit(3, 1),
     Lit(-1, 1), Lit(-4, 1), Lit(-1, 2), Lit(1, 4)}

\* evaluate(f, u), f a sum or a product of powers
DoEvaluatePowers ==
    \E f \in PowerFunctions, a \in 1..MaxExponent, b \in 1..MaxExponent,
       u \in PowerPoints :
        /\ calls' = EvaluatePowers(f, a, b, u).calls
        /\ ret' = RetNum(EvaluatePowers(f, a, b, u).value)
        /\ last' = [NoCall EXCEPT !.op = "evaluate", !.f = f, !.n = u,
                                  !.e = <<a, b>>]
        /\ UNCHANGED <<obj, depth>>

NextPowers == DoEvaluatePowers

SpecPowers == Init /\ [][NextPowers]_vars

\* properties of the polynomials (SpecPowers)

\* the DualNumber evaluate hands to the user function
PowerSeed == DualNumber2(last.n, Lit(1, 1))

\* the product and the sum of powers as first stated: for every u # 0 the
\* product pow(x, a) * pow(x, b) evaluates to the pair pow(x, a + b)
\* evaluates to, (u^(a+b), (a+b) * u^(a+b-1)), and the sum has the dual
\* a * u^(a-1) + b * u^(b-1)
C24_PowersCompose ==
    (last.op = "evaluate" /\ ~IsZero(last.n)) =>
        LET a == last.e[1]
            b == last.e[2]
            u == last.n
        IN  /\ last.f = "pow_times_pow" =>
                  /\ SameValue(ret.num,
                               ApplyPowers("pow_of_sum", a, b, PowerSeed))
                  /\ SameValue(ret.num,
                               DualNumber2(Power(u, a + b),
                                           FMul(Lit(a + b, 1),
                                                Power(u, a + b - 1))))
            /\ last.f = "pow_plus_pow" =>
                  ret.num.dual = FAdd(FMul(Lit(a, 1), Power(u, a - 1)),
                                      FMul(Lit(b, 1), Power(u, b - 1)))

\* C24: for integer exponents a, b >= 1 and u # 0, pow(x, a) * pow(x, b)
\* evaluates at u to the primal u^a * u^b and the dual
\* u^a * (b * u^(b-1)) + (a * u^(a-1)) * u^b; when neither u^(a+b) nor
\* (a+b) * u^(a+b-1) overflows or underflows that is the pair pow(x, a + b)
\* evaluates to, (u^(a+b), (a+b) * u^(a+b-1)).  pow(x, a) + pow(x, b)
\* evaluates to the dual a * u^(a-1) + b * u^(b-1).
C24_PowersComposeInRange ==
    (last.op = "evaluate" /\ ~IsZero(last.n)) =>
        LET a == last.e[1]
            b == last.e[2]
            u == last.n
            total == FMul(Lit(a + b, 1), Power(u, a + b - 1))
        IN  /\ last.f = "pow_times_pow" =>
                  /\ ret.num.primal = FMul(Power(u, a), Power(u, b))
                  /\ ret.num.dual =
                        FAdd(FMul(Power(u, a),
                                  FMul(Lit(b, 1), Power(u, b - 1))),
                             FMul(FMul(Lit(a, 1), Power(u, a - 1)),
                                  Power(u, b)))
                  /\ (Exact(Power(u, a + b), FALSE) /\ Exact(total, FALSE)) =>
                        /\ ret.num =
                              ApplyPowers("pow_of_sum", a, b, PowerSeed)
                        /\ ret.num = DualNumber2(Power(u, a + b), total)
            /\ last.f = "pow_plus_pow" =>
                  ret.num.dual = FAdd(FMul(Lit(a, 1), Power(u, a - 1)),
                                      FMul(Lit(b, 1), Power(u, b - 1)))

\* pow(x, 1) * pow(x, 2) evaluated at 3/2 to (27/8, 27/4), as pow(x, 3) does
C24_Witness ==
    /\ last.op = "evaluate"
    /\ last.f = "pow_times_pow"
    /\ last.e = <<1, 2>>
    /\ last.n = Lit(3, 2)
    /\ ret.num = DualNumber2(Lit(27, 8), Lit(27, 4))
    /\ ret.num = ApplyPowers("pow_of_sum", 1, 2, PowerSeed)

----------------------------------------------------------------------------
\* properties of the functions of the catalogue (SpecFunctions), continued

\* pow(a, b) with a constant exponent b = (q, 0), a = (p, d) finite, p > 0
\* and q an integer, the exponents whose powers the model computes exactly
ConstantExponent ==
    /\ last.op = "pow_dual"
    /\ IsZero(last.y.dual)
    /\ IsInteger(last.y.primal)
    /\ IsFinite(last.x.primal)
    /\ IsFinite(last.x.dual)
    /\ FLt(Zero(1), last.x.primal)

\* pow(x, q) with the scalar exponent q on the operand of the last call
ScalarPow == Pow(Operands(last.x, last.x), "a", last.y.primal)

\* pow with a DualNumber exponent as first stated: with a constant exponent
\* it returns the pair of the scalar-exponent pow for every x.primal > 0
C25_ConstantExponentIsScalarPow ==
    /\ last.op = "pow_dual" =>
          LET power == StdPow(last.x.primal, last.y.primal)
          IN  /\ ret.num.primal = power
              /\ ret.num.dual =
                    FMul(power,
                         FAdd(FMul(last.y.dual, StdLog(last.x.primal)),
                              FDiv(FMul(last.x.dual, last.y.primal),
                                   last.x.primal)))
    /\ ConstantExponent => SameValue(ret.num, ScalarPow)

\* C25: pow(x, y) with a DualNumber exponent returns the primal
\* x.primal^y.primal and the dual
\* x.primal^y.primal * (y.dual * ln(x.primal) + x.dual * y.primal / x.primal);
\* with a constant exponent (y.dual = 0) and a finite x.primal > 0 it
\* returns the pair of pow(x, y.primal) when neither x.primal^y.primal nor
\* x.primal^(y.primal - 1) nor the dual of either overflows or underflows.
C25_DualExponent ==
    /\ last.op = "pow_dual" =>
          LET power == StdPow(last.x.primal, last.y.primal)
          IN  /\ ret.num.primal = power
              /\ ret.num.dual =
                    FMul(power,
                         FAdd(FMul(last.y.dual, StdLog(last.x.primal)),
                              FDiv(FMul(last.x.dual, last.y.primal),
                                   last.x.primal)))
    /\ (/\ ConstantExponent
        /\ Exact(StdPow(last.x.primal, last.y.primal), FALSE)
        /\ Exact(StdPow(last.x.primal, FSub(last.y.primal, Lit(1, 1))), FALSE)
        /\ Exact(ret.num.dual, IsZero(last.x.dual) \/ IsZero(last.y.primal))
        /\ Exact(ScalarPow.dual,
                 IsZero(last.x.dual) \/ IsZero(last.y.primal))) =>
          SameValue(ret.num, ScalarPow)

\* pow((2, 1), (2, 0)) returned (4, 4), as pow((2, 1), 2.0) does
C25_Witness ==
    /\ last.op = "pow_dual"
    /\ last.x = DualNumber2(Lit(2, 1), Lit(1, 1))
    /\ last.y = DualNumber2(Lit(2, 1), Zero(1))
    /\ ret.num = DualNumber2(Lit(4, 1), Lit(4, 1))
    /\ ret.num = ScalarPow

----------------------------------------------------------------------------
\* properties of gradient and jacobian (SpecVector), continued

\* C26: gradient(f, u) with an empty u returns an empty sequence and does
\* not invoke f; jacobian(functions, u) with an empty list of functions
\* returns a matrix with no rows and invokes nothing; jacobian(functions, u)
\* with m functions and an empty u returns m empty rows.
C26_DegenerateSizes ==
    /\ (last.op = "gradient_vector" /\ Len(last.u) = 0) =>
          /\ Len(ret.vec) = 0
          /\ Len(calls) = 0
    /\ (last.op = "jacobian_functions" /\ Len(last.fs) = 0) =>
          /\ Len(ret.mat) = 0
          /\ Len(calls) = 0
    /\ (last.op = "jacobian_functions" /\ Len(last.u) = 0) =>
          /\ Len(ret.mat) = Len(last.fs)
          /\ \A i \in 1..Len(last.fs) : Len(ret.mat[i]) = 0
          /\ Len(calls) = 0

\* jacobian of (product, sum) at the empty u returned two empty rows and
\* invoked nothing
C26_Witness ==
    /\ last.op = "jacobian_functions"
    /\ last.fs = <<"product", "sum">>
    /\ Len(last.u) = 0
    /\ Len(ret.mat) = 2
    /\ Len(ret.mat[1]) = 0
    /\ Len(calls) = 0

\* the iterations of the last jacobian<FunctionSize> that wrote the cell
Writers(cell) ==
    {k \in 1..Len(last.w) :
        \E t \in 1..Len(last.w[k].cells) : last.w[k].cells[t] = cell}

\* C27: in jacobian<FunctionSize>(f, u), for f returning exactly
\* FunctionSize outputs, every index read from the result of f is one of
\* its outputs, every cell of the FunctionSize x n matrix is written exactly
\* once and none is returned uninitialised, and after each iteration every
\* dual of the working vector is 0.
C27_ColumnsWrittenOnce ==
    last.op \in SingleOps =>
        LET m == Len(last.fs)
            n == Len(last.u)
        IN  /\ \A k \in 1..Len(calls) :
                  1..Len(ret.mat) \subseteq
                      DOMAIN ApplyVectorFunction(last.fs, calls[k], 1,
                                                 <<>>).value
            /\ Len(ret.mat) = m
            /\ \A i \in 1..m :
                  /\ Len(ret.mat[i]) = n
                  /\ \A j \in 1..n :
                        /\ ret.mat[i][j] # Uninitialized
                        /\ Cardinality(Writers(<<i, j>>)) = 1
            /\ Len(last.w) = n
            /\ \A k \in 1..n :
                  \A j \in 1..n : last.w[k].dual_numbers[j].dual = Zero(1)

----------------------------------------------------------------------------
\* properties of the functions of the catalogue (SpecFunctions), continued

\* C28: pow(x, 0.0) returns (1, 0) for every x with finite components,
\* x.primal = 0 included.
C28_PowZero ==
    (/\ last.op = "pow"
     /\ IsZero(last.n)
     /\ IsFinite(last.x.primal)
     /\ IsFinite(last.x.dual)) =>
        SameValue(ret.num, DualNumber2(Lit(1, 1), Zero(1)))

----------------------------------------------------------------------------
\* properties of the vector form of evaluate (SpecVector)

\* evaluate(f, u) has returned
Evaluated == last.op \in {"evaluate_vector", "evaluate_eigen"}

\* the primal of f at u
PrimalAt(f, u) == ApplyVector(f, DualNumbers(u)).value.primal

\* C29: evaluate(f, u) returns one DualNumber per element of u, the k-th the
\* value of f under the k-th seed, and every one of them has the primal of f
\* at u.
C29_EvaluationsSharePrimal ==
    Evaluated =>
        /\ Len(ret.vec) = Len(last.u)
        /\ \A k \in 1..Len(ret.vec) :
              /\ ret.vec[k] =
                     ApplyVector(last.fs[1],
                                 WriteDual(DualNumbers(last.u), k,
                                           Lit(1, 1))).value
              /\ ret.vec[k].primal = PrimalAt(last.fs[1], last.u)

----------------------------------------------------------------------------
\* dual_number.hpp: products and quotients of two DualNumbers composed

\* (a * b) / b
DoMulDiv ==
    /\ Function("mul_div", Zero(1),
                RetNum(OpDiv(Operands(OpMul(Heap, "a", "b"), obj["b"]),
                             "a", "b")))
    /\ UNCHANGED <<obj, depth>>

\* a * b and b * a
DoMulBothWays ==
    /\ Function("mul_both", Zero(1),
                [NoRet EXCEPT !.vec = <<OpMul(Heap, "a", "b"),
                                        OpMul(Heap, "b", "a")>>])
    /\ UNCHANGED <<obj, depth>>

NextProducts ==
    \/ DoMulDiv
    \/ DoMulBothWays

SpecProducts == InitFunctions /\ [][NextProducts]_vars

----------------------------------------------------------------------------
\* properties of products and quotients composed (SpecProducts)

\* x * y is computed exactly
ExactProduct(x, y) == Exact(FMul(x, y), IsZero(x) \/ IsZero(y))

\* x + y is computed exactly
ExactSum(x, y) ==
    Exact(FAdd(x, y), (IsZero(x) /\ IsZero(y)) \/ x = FNeg(y))

\* x / y is computed exactly
ExactQuotient(x, y) == ~IsZero(y) /\ Exact(FDiv(x, y), IsZero(x))

\* every double operation of (a * b) / b is exact: no operand or result is
\* NaN or infinite, and none overflows or underflows
ExactArithmetic(a, b) ==
    LET p == FMul(a.primal, b.primal)
        t1 == FMul(a.primal, b.dual)
        t2 == FMul(a.dual, b.primal)
        d == FAdd(t1, t2)
        u1 == FMul(d, b.primal)
        u2 == FMul(p, b.dual)
        den == FMul(b.primal, b.primal)
    IN  /\ ExactProduct(a.primal, b.primal)
        /\ ExactProduct(a.primal, b.dual)
        /\ ExactProduct(a.dual, b.primal)
        /\ ExactSum(t1, t2)
        /\ ExactQuotient(p, b.primal)
        /\ ExactProduct(d, b.primal)
        /\ ExactProduct(p, b.dual)
        /\ ExactSum(u1, FNeg(u2))
        /\ ExactProduct(b.primal, b.primal)
        /\ ExactQuotient(FSub(u1, u2), den)

\* C30: in exact arithmetic, for every a and every b with b.primal # 0,
\* (a * b) / b has the primal and the dual of a; and a * b has the primal and
\* the dual of b * a.
C30_MulDivInverse ==
    /\ (/\ last.op = "mul_div"
        /\ ~IsZero(last.y.primal)
        /\ ExactArithmetic(last.x, last.y)) =>
            SameValue(ret.num, last.x)
    /\ last.op = "mul_both" => SameValue(ret.vec[1], ret.vec[2])

\* ((3/2, 1) * (2, -1/2)) / (2, -1/2) has returned (3/2, 1), by way of the
\* product (3, 5/4)
C30_Witness ==
    /\ last.op = "mul_div"
    /\ last.x = DualNumber2(Lit(3, 2), Lit(1, 1))
    /\ last.y = DualNumber2(Lit(2, 1), Lit(-1, 2))
    /\ ExactArithmetic(last.x, last.y)
    /\ OpMul(Operands(last.x, last.y), "a", "b") =
           DualNumber2(Lit(3, 1), Lit(5, 4))
    /\ ret.num = DualNumber2(Lit(3, 2), Lit(1, 1))

====
